---- MODULE Spec2Model ----
(***************************************************************************)
(* Ledger core of finance_planner: AccountService, TransactionService and  *)
(* their repositories, run by concurrent requests against one relational   *)
(* store.  The store (accounts, txns) holds committed rows only; what a    *)
(* request has read or flushed but not committed lives in its own record   *)
(* (its SQLAlchemy session).  One action is one database round trip of a   *)
(* handler, so that other requests can commit between two round trips.     *)
(* Amounts and balances are counted in cents (Numeric(15, 2)).             *)
(***************************************************************************)
EXTENDS Integers, Sequences, FiniteSets, TLC

\* ---- bounds of the model ------------------------------------------------
MaxAccounts == 3
MaxTxns == 3
MaxRequests == 2
MaxBatch == 2
MaxUsers == 4
MaxMemberships == 6

\* ---- program constants --------------------------------------------------
BatchMin == 1
BatchMax == 100

Users == 1..MaxUsers
Tenants == {1, 2}
AuthIds == {"u1", "u2", "u3"}
OWNER == "owner"
ADMIN == "admin"
MEMBER == "member"
VIEWER == "viewer"
TenantRole == {OWNER, ADMIN, MEMBER, VIEWER}
NoRole == "none"

Amounts == {-1, 2}
Seeds == {0, 3}
Names == {"n1", "n2"}
AccountType == {"checking", "savings"}
\* a field the request body does not carry
Absent == "absent"
\* initial_balance as a caller may send it: nothing, a seed, a negative
\* number; <<>> stands for the field left out
SeedInputs == {<<>>} \cup {<<v>> : v \in Seeds \cup {-1}}
Cats == {"c1", "c2"}
NoCat == "-"
Slots == {1, 2}
AccIds == 1..MaxAccounts
TxnIds == 1..MaxTxns

VARIABLES
    accounts,         \* committed rows of table accounts: id -> row
    txns,             \* committed rows of table transactions: id -> row
    account_seq,      \* next value of accounts.id
    transaction_seq,  \* next value of transactions.id
    users,            \* committed rows of table users: id -> row
    user_seq,         \* next value of users.id
    tenants,          \* committed rows of table tenants: id -> row
    memberships,      \* committed rows of table tenant_memberships: id -> row
    membership_seq,   \* next value of tenant_memberships.id
    reqs,             \* the requests in flight, one record per slot
    nreq,             \* number of requests started so far
    trip              \* the successful transaction writes so far, in order,
                      \* when the run records them

storeVars == <<accounts, txns, account_seq, transaction_seq>>
authVars == <<users, user_seq, tenants, memberships, membership_seq>>
vars ==
    <<accounts, txns, account_seq, transaction_seq,
      users, user_seq, tenants, memberships, membership_seq, reqs, nreq,
      trip>>

\* ---- helpers ------------------------------------------------------------
RECURSIVE SumSeq(_)
SumSeq(s) == IF s = <<>> THEN 0 ELSE Head(s) + SumSeq(Tail(s))

RECURSIVE SumAmounts(_, _)
SumAmounts(T, ids) ==
    IF ids = {} THEN 0
    ELSE LET i == CHOOSE x \in ids : TRUE
         IN T[i].amount + SumAmounts(T, ids \ {i})

TxnsOf(T, aid) == {i \in DOMAIN T : T[i].account_id = aid}

Without(f, ks) == [k \in DOMAIN f \ ks |-> f[k]]

SeqsUpTo(S, n) == UNION {[1..k -> S] : k \in 0..n}

\* ---- TenantContext ------------------------------------------------------
can_write(role) == role \in {OWNER, ADMIN, MEMBER}

can_read(role) == TRUE

\* ---- repositories (queries on the committed store) ----------------------
Account_get_by_tenant(A, tenant_id) ==
    {a \in DOMAIN A : A[a].tenant_id = tenant_id}

Account_get_by_id_and_tenant(A, account_id, tenant_id) ==
    account_id \in DOMAIN A /\ A[account_id].tenant_id = tenant_id

Account_get_by_id_and_user(A, account_id, user_id) ==
    account_id \in DOMAIN A /\ A[account_id].user_id = user_id

Transaction_get_by_id_and_user(A, T, transaction_id, user_id) ==
    /\ transaction_id \in DOMAIN T
    /\ T[transaction_id].account_id \in DOMAIN A
    /\ A[T[transaction_id].account_id].user_id = user_id

\* ForeignKey("accounts.id", ondelete="CASCADE") on transactions.account_id:
\* the database behind DATABASE_URL enforces it (PostgreSQL) or does not
\* (SQLite, where no PRAGMA foreign_keys is issued)
ForeignKeys == BOOLEAN

\* create_bulk: add_all + flush. The rows get their ids and stay in the
\* session's open database transaction; the store is not changed.
create_bulk_commit(T, rows) == [store |-> T @@ rows, session |-> <<>>]

create_bulk(T, rows) == [store |-> T, session |-> rows]

\* line 135, db.rollback(): what the session had flushed is discarded
rollback_keeps(T, session) == T @@ session

rollback(T, session) == T

\* step 2 of create_transaction_batch, lines 90-93: the size of the batch
batch_size_ok_or_empty(n) == n <= BatchMax

batch_size_ok(n) == ~(n < BatchMin) /\ ~(n > BatchMax)

\* batch_data.transactions as the caller may send it: a short list of any
\* amounts, or a list one longer than the service accepts
Oversize == {[i \in 1..(BatchMax + 1) |-> a] : a \in Amounts}

BatchInputs == SeqsUpTo(Amounts, MaxBatch) \cup Oversize

\* step 3 of create_transaction_batch: the balance delta of the batch
total_amount_first(amts) == IF amts = <<>> THEN 0 ELSE Head(amts)

total_amount(amts) == SumSeq(amts)

\* ---- filters of a list of transactions -----------------------------------
\* get_with_filters: limit: int = 100
DefaultLimit == 100

\* the optional parameters of get_with_filters, none of them given:
\* 0, NoCat and <<>> stand for None
NoFilter ==
    [account_id |-> 0, start_date |-> 0, end_date |-> 0, category |-> NoCat,
     tags |-> <<>>, limit |-> DefaultLimit, offset |-> 0]

\* ---- requests -----------------------------------------------------------
Idle ==
    [pc |-> "idle", op |-> "-", user |-> 0, tenant |-> 0, role |-> "-",
     acc |-> 0, txn |-> 0, amts |-> <<>>, cat |-> NoCat, oldCat |-> NoCat,
     rdBal |-> 0, oldAmt |-> 0, newAmt |-> 0, ids |-> {}, pending |-> <<>>,
     res |-> "-", at |-> "-", out |-> {},
     target |-> "-", txnDone |-> FALSE, accDone |-> FALSE,
     dep |-> "-", valid |-> FALSE, sub |-> "-", tclaim |-> "-", tid |-> 0,
     auth |-> "-", ret |-> "-", uid |-> 0, reqRole |-> "-", newRole |-> "-",
     memId |-> 0, oldRole |-> "-", size |-> 0, listed |-> <<>>,
     member |-> 0, detail |-> "-", seedIn |-> <<>>,
     flt |-> NoFilter, page |-> <<>>, total |-> 0,
     usrDone |-> FALSE, memDone |-> FALSE, tenDone |-> FALSE]

InFlight == {r \in Slots : reqs[r].pc # "idle"}

Quiescent == InFlight = {}

\* the handler returns or raises: the response is `res`, raised at step `at`.
\* The session is closed: what the request had read or flushed is dropped.
Fin(rec, res) ==
    [Idle EXCEPT !.pc = "done", !.op = rec.op, !.user = rec.user,
                 !.tenant = rec.tenant, !.role = rec.role,
                 !.res = res, !.at = rec.pc, !.out = rec.out,
                 !.ids = rec.ids, !.target = rec.target,
                 !.txnDone = rec.txnDone, !.accDone = rec.accDone,
                 !.usrDone = rec.usrDone, !.memDone = rec.memDone,
                 !.tenDone = rec.tenDone, !.reqRole = rec.reqRole,
                 !.acc = rec.acc, !.size = rec.size, !.auth = rec.auth,
                 !.txn = rec.txn, !.tclaim = rec.tclaim, !.listed = rec.listed,
                 !.member = rec.member, !.detail = rec.detail,
                 !.seedIn = rec.seedIn, !.flt = rec.flt, !.page = rec.page,
                 !.total = rec.total]

\* create, update and delete of one transaction
RoundTripOps == {"create_transaction", "update_transaction", "delete_transaction"}

\* what the client of request r notes when the request ends as rec with the
\* accounts na: the operation, the transaction, the amount it sent and the
\* balance of the account before and after
Track(r, rec, na) ==
    IF ~trip.on \/ rec.pc # "done" \/ rec.res # "OK" \/ rec.op \notin RoundTripOps
    THEN trip
    ELSE [trip EXCEPT !.log = Append(@,
            [op |-> rec.op, acc |-> reqs[r].acc, txn |-> reqs[r].txn,
             amts |-> reqs[r].amts,
             before |-> accounts[reqs[r].acc].balance,
             after |-> na[reqs[r].acc].balance])]

\* one round trip of request r: its record becomes rec, the committed store
\* becomes (na, nt); txnDone / accDone record that r has changed a table
Step(r, rec, na, nt) ==
    /\ accounts' = na
    /\ txns' = nt
    /\ trip' = Track(r, rec, na)
    /\ reqs' = [reqs EXCEPT ![r] =
                  [rec EXCEPT !.txnDone = @ \/ (nt # txns),
                              !.accDone = @ \/ (na # accounts)]]

Fault(faults) == IF faults THEN BOOLEAN ELSE {FALSE}

InitStore ==
    /\ accounts = (1 :> [tenant_id |-> 1, user_id |-> 2, name |-> "n1",
                         account_type |-> "checking",
                         balance |-> 2, seed |-> 0, applied |-> 2])
               @@ (2 :> [tenant_id |-> 2, user_id |-> 1, name |-> "n1",
                         account_type |-> "savings",
                         balance |-> 3, seed |-> 3, applied |-> 0])
    /\ txns = (1 :> [account_id |-> 1, amount |-> 2, category |-> "c1"])
    /\ account_seq = 3
    /\ transaction_seq = 2
    /\ users = (1 :> [auth_user_id |-> "u1"]) @@ (2 :> [auth_user_id |-> "u2"])
    /\ user_seq = 3
    /\ tenants = [t \in Tenants |-> [name |-> "n1"]]
    /\ memberships =
           (1 :> [tenant_id |-> 1, user_id |-> 2, role |-> OWNER])
        @@ (2 :> [tenant_id |-> 2, user_id |-> 1, role |-> OWNER])
        @@ (3 :> [tenant_id |-> 1, user_id |-> 1, role |-> VIEWER])
        @@ (4 :> [tenant_id |-> 2, user_id |-> 2, role |-> MEMBER])
    /\ membership_seq = 5
    /\ reqs = [r \in Slots |-> Idle]
    /\ nreq = 0

Init == InitStore /\ trip = [on |-> FALSE, log |-> <<>>]

\* the same store, with a client that notes the outcome of its writes
InitRound == InitStore /\ trip = [on |-> TRUE, log |-> <<>>]

\* get_tenant_context, line 97: the request of a member gets the context
\* (user, tenant, role) of its membership row
Begin(r, limit, cap) ==
    /\ reqs[r].pc = "idle"
    /\ \A s \in Slots : s < r => reqs[s].pc # "idle"
    /\ nreq < cap
    /\ Cardinality(InFlight) < limit
    /\ \E m \in DOMAIN memberships :
         reqs' = [reqs EXCEPT ![r] =
                    [Idle EXCEPT !.pc = "run",
                                 !.user = memberships[m].user_id,
                                 !.tenant = memberships[m].tenant_id,
                                 !.role = memberships[m].role]]
    /\ nreq' = nreq + 1
    /\ UNCHANGED <<storeVars, authVars, trip>>

\* the response has been sent; the slot is free again
Respond(r) ==
    /\ reqs[r].pc = "done"
    /\ reqs' = [reqs EXCEPT ![r] = Idle]
    /\ UNCHANGED <<storeVars, authVars, nreq, trip>>

\* ---- AccountService -----------------------------------------------------
\* whose row a request names: none, one of the tenant of its context, one of
\* another tenant, or one that is not stored
AccountTarget(aid, tenant) ==
    IF aid \notin DOMAIN accounts THEN "absent"
    ELSE IF accounts[aid].tenant_id = tenant THEN "own" ELSE "foreign"

TxnTarget(tid, tenant) ==
    IF tid \notin DOMAIN txns THEN "absent"
    ELSE AccountTarget(txns[tid].account_id, tenant)

\* AccountCreate.initial_balance: Field(default=0.00, ge=0)
AccountCreate_ge_any(given) == TRUE

AccountCreate_ge(given) == given = <<>> \/ given[1] >= 0

AccountCreate_initial_balance(given) == IF given = <<>> THEN 0 ELSE given[1]

\* the body is validated into an AccountCreate before the service runs;
\* lines 30-41: the role check, then the row with
\* balance = data.initial_balance or 0.00
create_account(r) ==
    /\ reqs[r].pc = "run"
    /\ \E given \in SeedInputs, name \in Names, account_type \in AccountType :
         LET rec == [reqs[r] EXCEPT !.op = "create_account", !.seedIn = given]
             initial_balance == AccountCreate_initial_balance(given)
         IN
         IF ~AccountCreate_ge(given)
         THEN Step(r, Fin(rec, "Validation"), accounts, txns)
              /\ UNCHANGED account_seq
         ELSE IF ~can_write(rec.role)
         THEN Step(r, Fin(rec, "Forbidden"), accounts, txns)
              /\ UNCHANGED account_seq
         ELSE /\ account_seq <= MaxAccounts
              /\ Step(r, Fin([rec EXCEPT !.acc = account_seq], "OK"),
                      accounts @@ (account_seq :>
                          [tenant_id |-> rec.tenant, user_id |-> rec.user,
                           name |-> name, account_type |-> account_type,
                           balance |-> IF initial_balance # 0
                                       THEN initial_balance ELSE 0,
                           seed |-> initial_balance, applied |-> 0]),
                      txns)
              /\ account_seq' = account_seq + 1
    /\ UNCHANGED <<transaction_seq, authVars, nreq>>

get_tenant_accounts(r) ==
    /\ reqs[r].pc = "run"
    /\ LET rec == [reqs[r] EXCEPT !.op = "get_tenant_accounts"] IN
       Step(r, Fin([rec EXCEPT !.out = Account_get_by_tenant(accounts, rec.tenant)],
                   "OK"),
            accounts, txns)
    /\ UNCHANGED <<account_seq, transaction_seq, authVars, nreq>>

get_account(r) ==
    /\ reqs[r].pc = "run"
    /\ \E account_id \in AccIds :
         LET rec == [reqs[r] EXCEPT !.op = "get_account", !.acc = account_id,
                        !.target = AccountTarget(account_id, reqs[r].tenant)] IN
         IF ~Account_get_by_id_and_tenant(accounts, account_id, rec.tenant)
         THEN Step(r, Fin(rec, "NotFound"), accounts, txns)
         ELSE Step(r, Fin([rec EXCEPT !.out = {account_id}], "OK"), accounts, txns)
    /\ UNCHANGED <<account_seq, transaction_seq, authVars, nreq>>

update_account(r) ==
    /\ reqs[r].pc = "run"
    /\ \E account_id \in AccIds, name \in Names \cup {Absent},
          account_type \in AccountType \cup {Absent} :
         LET rec == [reqs[r] EXCEPT !.op = "update_account", !.acc = account_id,
                        !.target = AccountTarget(account_id, reqs[r].tenant)] IN
         IF ~can_write(rec.role)
         THEN Step(r, Fin(rec, "Forbidden"), accounts, txns)
         ELSE IF ~Account_get_by_id_and_tenant(accounts, account_id, rec.tenant)
         THEN Step(r, Fin(rec, "NotFound"), accounts, txns)
         ELSE Step(r, Fin(rec, "OK"),
                   [accounts EXCEPT
                       ![account_id].name = IF name # Absent THEN name ELSE @,
                       ![account_id].account_type =
                           IF account_type # Absent THEN account_type ELSE @],
                   txns)
    /\ UNCHANGED <<account_seq, transaction_seq, authVars, nreq>>

\* repo.delete: the account row and, by the cascade, all its transactions
delete_account(r) ==
    /\ reqs[r].pc = "run"
    /\ \E account_id \in AccIds :
         LET rec == [reqs[r] EXCEPT !.op = "delete_account", !.acc = account_id,
                        !.target = AccountTarget(account_id, reqs[r].tenant)] IN
         IF ~can_write(rec.role)
         THEN Step(r, Fin(rec, "Forbidden"), accounts, txns)
         ELSE IF ~Account_get_by_id_and_tenant(accounts, account_id, rec.tenant)
         THEN Step(r, Fin(rec, "NotFound"), accounts, txns)
         ELSE Step(r, Fin(rec, "OK"),
                   Without(accounts, {account_id}),
                   Without(txns, TxnsOf(txns, account_id)))
    /\ UNCHANGED <<account_seq, transaction_seq, authVars, nreq>>

\* ---- TransactionService -------------------------------------------------
\* The service methods take `user` and look rows up by Account.user_id
\* (AccountRepository.get_by_id_and_user, TransactionRepository.
\* get_by_id_and_user); the caller's tenant and role are not consulted.

\* UPDATE accounts SET balance = <value computed by the handler> WHERE id = aid
SetBalance_subtracts(A, aid, rdBal, delta) ==
    [A EXCEPT ![aid].balance = rdBal - delta, ![aid].applied = @ + delta]

SetBalance(A, aid, rdBal, delta) ==
    [A EXCEPT ![aid].balance = rdBal + delta, ![aid].applied = @ + delta]

\* create_transaction, lines 39-46: the ownership check
create_transaction_check(r) ==
    /\ reqs[r].pc = "run"
    /\ \E account_id \in AccIds, amount \in Amounts, category \in Cats :
         LET rec == [reqs[r] EXCEPT !.op = "create_transaction",
                        !.acc = account_id, !.amts = <<amount>>, !.cat = category,
                        !.target = AccountTarget(account_id, reqs[r].tenant)] IN
         IF ~Account_get_by_id_and_user(accounts, account_id, rec.user)
         THEN Step(r, Fin(rec, "NotFound"), accounts, txns)
         ELSE Step(r, [rec EXCEPT !.pc = "ct_insert"], accounts, txns)
    /\ UNCHANGED <<account_seq, transaction_seq, authVars, nreq>>

\* line 62, TransactionRepository.create: add, COMMIT, refresh. When the
\* account is gone the INSERT raises where the foreign key is enforced and
\* stores the row where it is not
create_transaction_insert(r, faults) ==
    /\ reqs[r].pc = "ct_insert"
    /\ transaction_seq <= MaxTxns
    /\ \E fail \in Fault(faults), enforced \in ForeignKeys :
         LET rec == reqs[r] IN
         IF fail \/ (enforced /\ rec.acc \notin DOMAIN accounts)
         THEN Step(r, Fin(rec, "Error"), accounts, txns)
              /\ UNCHANGED transaction_seq
         ELSE /\ Step(r, [rec EXCEPT !.pc = "ct_reload", !.txn = transaction_seq],
                      accounts,
                      txns @@ (transaction_seq :>
                          [account_id |-> rec.acc, amount |-> rec.amts[1],
                           category |-> rec.cat]))
              /\ transaction_seq' = transaction_seq + 1
    /\ UNCHANGED <<account_seq, authVars, nreq>>

\* line 65, float(account.balance): the commit expired the account, so the
\* attribute access reads the row again
create_transaction_reload(r) ==
    /\ reqs[r].pc = "ct_reload"
    /\ LET rec == reqs[r] IN
       IF rec.acc \notin DOMAIN accounts
       THEN Step(r, Fin(rec, "Error"), accounts, txns)
       ELSE Step(r, [rec EXCEPT !.pc = "ct_write",
                                !.rdBal = accounts[rec.acc].balance],
                 accounts, txns)
    /\ UNCHANGED <<account_seq, transaction_seq, authVars, nreq>>

\* lines 65-66: balance = value read + amount; AccountRepository.update: COMMIT
create_transaction_write(r, faults) ==
    /\ reqs[r].pc = "ct_write"
    /\ \E fail \in Fault(faults) :
         LET rec == reqs[r] IN
         IF fail \/ rec.acc \notin DOMAIN accounts
         THEN Step(r, Fin(rec, "Error"), accounts, txns)
         ELSE Step(r, Fin(rec, "OK"),
                   SetBalance(accounts, rec.acc, rec.rdBal, rec.amts[1]), txns)
    /\ UNCHANGED <<account_seq, transaction_seq, authVars, nreq>>

\* create_transaction_batch, lines 80-96: ownership, batch size, total
create_transaction_batch_check(r) ==
    /\ reqs[r].pc = "run"
    /\ \E account_id \in AccIds, amounts \in BatchInputs,
          category \in Cats :
         LET rec == [reqs[r] EXCEPT !.op = "create_transaction_batch",
                        !.acc = account_id, !.amts = amounts, !.cat = category,
                        !.size = Len(amounts),
                        !.target = AccountTarget(account_id, reqs[r].tenant)] IN
         IF ~Account_get_by_id_and_user(accounts, account_id, rec.user)
         THEN Step(r, Fin(rec, "NotFound"), accounts, txns)
         ELSE IF ~batch_size_ok(Len(amounts))
         THEN Step(r, Fin(rec, "Validation"), accounts, txns)
         ELSE Step(r, [rec EXCEPT !.pc = "cb_insert",
                                  !.rdBal = accounts[account_id].balance],
                   accounts, txns)
    /\ UNCHANGED <<account_seq, transaction_seq, authVars, nreq>>

\* lines 99-117: the rows are built and flushed by create_bulk; an exception
\* goes to the handler of lines 133-138: rollback, ValidationException
create_transaction_batch_insert(r, faults) ==
    /\ reqs[r].pc = "cb_insert"
    /\ LET rec == reqs[r]
           k == Len(rec.amts)
           new == transaction_seq .. (transaction_seq + k - 1)
           rows == [i \in new |->
                      [account_id |-> rec.acc,
                       amount |-> rec.amts[i - transaction_seq + 1],
                       category |-> rec.cat]]
           done == create_bulk(txns, rows)
       IN
       /\ transaction_seq + k - 1 <= MaxTxns
       /\ \E fail \in Fault(faults), enforced \in ForeignKeys :
            IF fail \/ (enforced /\ rec.acc \notin DOMAIN accounts)
            THEN Step(r, Fin(rec, "Validation"), accounts,
                      rollback(txns, rec.pending))
                 /\ UNCHANGED transaction_seq
            ELSE /\ Step(r, [rec EXCEPT !.pc = "cb_commit", !.ids = new,
                                        !.pending = done.session],
                         accounts, done.store)
                 /\ transaction_seq' = transaction_seq + k
    /\ UNCHANGED <<account_seq, authVars, nreq>>

\* lines 120-129: balance = value read at line 81 + total, update_no_commit,
\* COMMIT of the inserts and the balance together, refresh; an exception
\* before the commit rolls back
create_transaction_batch_commit(r, faults) ==
    /\ reqs[r].pc = "cb_commit"
    /\ \E fail \in Fault(faults) :
         LET rec == reqs[r]
             total == total_amount(rec.amts)
         IN
         IF fail \/ rec.acc \notin DOMAIN accounts
         THEN Step(r, Fin(rec, "Validation"), accounts,
                   rollback(txns, rec.pending))
         ELSE Step(r, Fin(rec, "OK"),
                   IF total = 0 THEN accounts
                   ELSE SetBalance(accounts, rec.acc, rec.rdBal, total),
                   txns @@ rec.pending)
    /\ UNCHANGED <<account_seq, transaction_seq, authVars, nreq>>

get_transaction(r) ==
    /\ reqs[r].pc = "run"
    /\ \E transaction_id \in TxnIds :
         LET rec == [reqs[r] EXCEPT !.op = "get_transaction", !.txn = transaction_id,
                        !.target = TxnTarget(transaction_id, reqs[r].tenant)] IN
         IF ~Transaction_get_by_id_and_user(accounts, txns, transaction_id, rec.user)
         THEN Step(r, Fin(rec, "NotFound"), accounts, txns)
         ELSE Step(r, Fin(rec, "OK"), accounts, txns)
    /\ UNCHANGED <<account_seq, transaction_seq, authVars, nreq>>

\* get_transactions: after the account check, lines 198-210 call
\* get_with_filters(user_id=...), a keyword the repository method (lines
\* 92-105, parameter tenant_id) does not have: the call raises TypeError
get_transactions(r) ==
    /\ reqs[r].pc = "run"
    /\ \E account_id \in {0} \cup AccIds :
         LET rec == [reqs[r] EXCEPT !.op = "get_transactions", !.acc = account_id,
                        !.flt = [NoFilter EXCEPT !.account_id = account_id],
                        !.target = IF account_id = 0 THEN "-"
                                   ELSE AccountTarget(account_id, reqs[r].tenant)] IN
         IF account_id # 0
            /\ ~Account_get_by_id_and_user(accounts, account_id, rec.user)
         THEN Step(r, Fin(rec, "NotFound"), accounts, txns)
         ELSE Step(r, Fin(rec, "Error"), accounts, txns)
    /\ UNCHANGED <<account_seq, transaction_seq, authVars, nreq>>

\* update_transaction, lines 230-235: load the row, remember old_amount
update_transaction_load(r) ==
    /\ reqs[r].pc = "run"
    /\ \E transaction_id \in TxnIds, amount \in SeqsUpTo(Amounts, 1),
          category \in Cats \cup {NoCat} :
         LET rec == [reqs[r] EXCEPT !.op = "update_transaction",
                        !.txn = transaction_id, !.amts = amount, !.cat = category,
                        !.target = TxnTarget(transaction_id, reqs[r].tenant)] IN
         IF ~Transaction_get_by_id_and_user(accounts, txns, transaction_id, rec.user)
         THEN Step(r, Fin(rec, "NotFound"), accounts, txns)
         ELSE Step(r, [rec EXCEPT !.pc = "ut_commit",
                                  !.acc = txns[transaction_id].account_id,
                                  !.oldAmt = txns[transaction_id].amount,
                                  !.oldCat = txns[transaction_id].category],
                   accounts, txns)
    /\ UNCHANGED <<account_seq, transaction_seq, authVars, nreq>>

update_transaction_commit_every_field(r, faults) ==
    /\ reqs[r].pc = "ut_commit"
    /\ \E fail \in Fault(faults) :
         LET rec == reqs[r]
             tid == rec.txn
             row == [txns[tid] EXCEPT
                       !.amount = IF rec.amts # <<>> THEN rec.amts[1] ELSE @,
                       !.category = rec.cat]
         IN
         IF fail \/ tid \notin DOMAIN txns
         THEN Step(r, Fin(rec, "Error"), accounts, txns)
         ELSE IF rec.amts # <<>> /\ rec.oldAmt # row.amount
         THEN Step(r, [rec EXCEPT !.pc = "ut_account", !.newAmt = row.amount],
                   accounts, [txns EXCEPT ![tid] = row])
         ELSE Step(r, Fin(rec, "OK"), accounts, [txns EXCEPT ![tid] = row])
    /\ UNCHANGED <<account_seq, transaction_seq, authVars, nreq>>

\* lines 238-257: the supplied fields are set on the loaded object;
\* TransactionRepository.update: COMMIT (an UPDATE of the columns whose value
\* differs from the loaded one), then refresh. A row deleted in between makes
\* the UPDATE or the refresh raise. Lines 260-267: no balance change unless an
\* amount was supplied and the refreshed amount differs from old_amount
update_transaction_commit(r, faults) ==
    /\ reqs[r].pc = "ut_commit"
    /\ \E fail \in Fault(faults) :
         LET rec == reqs[r]
             tid == rec.txn
             setAmt == rec.amts # <<>> /\ rec.amts[1] # rec.oldAmt
             setCat == rec.cat # NoCat /\ rec.cat # rec.oldCat
             row == [txns[tid] EXCEPT
                       !.amount = IF setAmt THEN rec.amts[1] ELSE @,
                       !.category = IF setCat THEN rec.cat ELSE @]
         IN
         IF fail \/ tid \notin DOMAIN txns
         THEN Step(r, Fin(rec, "Error"), accounts, txns)
         ELSE IF rec.amts # <<>> /\ rec.oldAmt # row.amount
         THEN Step(r, [rec EXCEPT !.pc = "ut_account", !.newAmt = row.amount],
                   accounts, [txns EXCEPT ![tid] = row])
         ELSE Step(r, Fin(rec, "OK"), accounts, [txns EXCEPT ![tid] = row])
    /\ UNCHANGED <<account_seq, transaction_seq, authVars, nreq>>

\* line 262, transaction.account: the lazy load of the account row
update_transaction_account(r) ==
    /\ reqs[r].pc = "ut_account"
    /\ LET rec == reqs[r] IN
       IF rec.acc \notin DOMAIN accounts
       THEN Step(r, Fin(rec, "Error"), accounts, txns)
       ELSE Step(r, [rec EXCEPT !.pc = "ut_write",
                                !.rdBal = accounts[rec.acc].balance],
                 accounts, txns)
    /\ UNCHANGED <<account_seq, transaction_seq, authVars, nreq>>

\* lines 264-265: balance = value read - old_amount + amount; COMMIT
update_transaction_write(r, faults) ==
    /\ reqs[r].pc = "ut_write"
    /\ \E fail \in Fault(faults) :
         LET rec == reqs[r] IN
         IF fail \/ rec.acc \notin DOMAIN accounts
         THEN Step(r, Fin(rec, "Error"), accounts, txns)
         ELSE Step(r, Fin(rec, "OK"),
                   SetBalance(accounts, rec.acc, rec.rdBal, rec.newAmt - rec.oldAmt),
                   txns)
    /\ UNCHANGED <<account_seq, transaction_seq, authVars, nreq>>

\* delete_transaction, lines 281-289: load the row, its account, its amount
delete_transaction_load(r) ==
    /\ reqs[r].pc = "run"
    /\ \E transaction_id \in TxnIds :
         LET rec == [reqs[r] EXCEPT !.op = "delete_transaction",
                        !.txn = transaction_id,
                        !.target = TxnTarget(transaction_id, reqs[r].tenant)] IN
         IF ~Transaction_get_by_id_and_user(accounts, txns, transaction_id, rec.user)
         THEN Step(r, Fin(rec, "NotFound"), accounts, txns)
         ELSE Step(r, [rec EXCEPT !.pc = "dt_delete",
                                  !.acc = txns[transaction_id].account_id,
                                  !.oldAmt = txns[transaction_id].amount],
                   accounts, txns)
    /\ UNCHANGED <<account_seq, transaction_seq, authVars, nreq>>

\* line 292, TransactionRepository.delete: DELETE, COMMIT. A DELETE that
\* matches no row (the row is already gone) only warns
delete_transaction_delete(r, faults) ==
    /\ reqs[r].pc = "dt_delete"
    /\ \E fail \in Fault(faults) :
         LET rec == reqs[r] IN
         IF fail
         THEN Step(r, Fin(rec, "Error"), accounts, txns)
         ELSE Step(r, [rec EXCEPT !.pc = "dt_reload"], accounts,
                   Without(txns, {rec.txn}))
    /\ UNCHANGED <<account_seq, transaction_seq, authVars, nreq>>

\* line 295, float(account.balance): the expired account is read again
delete_transaction_reload(r) ==
    /\ reqs[r].pc = "dt_reload"
    /\ LET rec == reqs[r] IN
       IF rec.acc \notin DOMAIN accounts
       THEN Step(r, Fin(rec, "Error"), accounts, txns)
       ELSE Step(r, [rec EXCEPT !.pc = "dt_write",
                                !.rdBal = accounts[rec.acc].balance],
                 accounts, txns)
    /\ UNCHANGED <<account_seq, transaction_seq, authVars, nreq>>

\* lines 295-296: balance = value read - amount; COMMIT
delete_transaction_write(r, faults) ==
    /\ reqs[r].pc = "dt_write"
    /\ \E fail \in Fault(faults) :
         LET rec == reqs[r] IN
         IF fail \/ rec.acc \notin DOMAIN accounts
         THEN Step(r, Fin(rec, "Error"), accounts, txns)
         ELSE Step(r, Fin(rec, "OK"),
                   SetBalance(accounts, rec.acc, rec.rdBal, 0 - rec.oldAmt), txns)
    /\ UNCHANGED <<account_seq, transaction_seq, authVars, nreq>>

\* ---- specifications -----------------------------------------------------
AccountHandlers(r) ==
    \/ create_account(r)
    \/ get_tenant_accounts(r)
    \/ update_account(r)

TransactionHandlers(r, faults) ==
    \/ get_account(r)
    \/ delete_account(r)
    \/ create_transaction_check(r)
    \/ create_transaction_insert(r, faults)
    \/ create_transaction_reload(r)
    \/ create_transaction_write(r, faults)
    \/ create_transaction_batch_check(r)
    \/ create_transaction_batch_insert(r, faults)
    \/ create_transaction_batch_commit(r, faults)
    \/ get_transaction(r)
    \/ get_transactions(r)
    \/ update_transaction_load(r)
    \/ update_transaction_commit(r, faults)
    \/ update_transaction_account(r)
    \/ update_transaction_write(r, faults)
    \/ delete_transaction_load(r)
    \/ delete_transaction_delete(r, faults)
    \/ delete_transaction_reload(r)
    \/ delete_transaction_write(r, faults)

Handlers(r, faults) == AccountHandlers(r) \/ TransactionHandlers(r, faults)

\* requests one after the other, no storage failure
Next == \E r \in Slots : Begin(r, 1, MaxRequests) \/ Handlers(r, FALSE) \/ Respond(r)

Spec == Init /\ [][Next]_vars

\* one request per slot, all of them in flight at once if the schedule has
\* it so; no storage failure
NextConc ==
    \E r \in Slots :
        \/ Begin(r, Cardinality(Slots), Cardinality(Slots))
        \/ TransactionHandlers(r, FALSE)
        \/ Respond(r)

SpecConc == Init /\ [][NextConc]_vars

\* requests one after the other; a COMMIT or flush may fail
NextFault == \E r \in Slots : Begin(r, 1, MaxRequests) \/ Handlers(r, TRUE) \/ Respond(r)

SpecFault == Init /\ [][NextFault]_vars

\* one client, its requests one after the other: create, update and delete
\* of transactions only
NextRound ==
    \E r \in Slots :
        \/ Begin(r, 1, MaxRequests + 1)
        \/ create_transaction_check(r)
        \/ create_transaction_insert(r, FALSE)
        \/ create_transaction_reload(r)
        \/ create_transaction_write(r, FALSE)
        \/ update_transaction_load(r)
        \/ update_transaction_commit(r, FALSE)
        \/ update_transaction_account(r)
        \/ update_transaction_write(r, FALSE)
        \/ delete_transaction_load(r)
        \/ delete_transaction_delete(r, FALSE)
        \/ delete_transaction_reload(r)
        \/ delete_transaction_write(r, FALSE)
        \/ Respond(r)

SpecRound == InitRound /\ [][NextRound]_vars

\* ---- the ledger invariant -----------------------------------------------
Ledger(a) == accounts[a].seed + SumAmounts(txns, TxnsOf(txns, a))

\* C1: when no operation is in flight, the balance of every account is its
\* initial balance plus the sum of the amounts of the transactions that are
\* on it now.
C1_QuiescentBalance ==
    Quiescent => \A a \in DOMAIN accounts : accounts[a].balance = Ledger(a)

\* C2: two concurrent operations that adjust the balance of one account are
\* both reflected in the final balance: once nothing is in flight, the
\* balance is the initial balance plus every delta that a handler applied.
C2_NoLostUpdate ==
    Quiescent =>
        \A a \in DOMAIN accounts :
            accounts[a].balance = accounts[a].seed + accounts[a].applied

\* C3: for a single create, an amount-changing update and a delete, the row
\* change and the balance adjustment are committed together: every committed
\* state, those a reader sees while a request is between two round trips
\* included, has each balance equal to its seed plus the stored amounts.
C3_RowAndBalanceTogether ==
    \A a \in DOMAIN accounts : accounts[a].balance = Ledger(a)

\* C4: a create_transaction whose balance update fails leaves no transaction
\* row behind.
C4_FailedBalanceUpdateKeepsNoRow ==
    \A r \in Slots :
        (/\ reqs[r].pc = "done"
         /\ reqs[r].op = "create_transaction"
         /\ reqs[r].res = "Error"
         /\ reqs[r].at = "ct_write")
        => ~reqs[r].txnDone /\ ~reqs[r].accDone

\* ---- batch create -------------------------------------------------------
IsBatch(r) == reqs[r].op = "create_transaction_batch"

\* C5: a batch create that fails at the insert of its rows or at the balance
\* update persists none of its transactions and leaves every balance as it
\* was: the request has changed neither table.
C5_FailedBatchPersistsNothing ==
    \A r \in Slots :
        (reqs[r].pc = "done" /\ IsBatch(r) /\ reqs[r].res # "OK")
        => /\ reqs[r].ids \cap DOMAIN txns = {}
           /\ ~reqs[r].txnDone
           /\ ~reqs[r].accDone

\* the balance update of a two-row batch failed after the rows were flushed
C5_Witness ==
    \E r \in Slots :
        /\ reqs[r].pc = "done" /\ IsBatch(r)
        /\ reqs[r].res = "Validation" /\ reqs[r].at = "cb_commit"
        /\ Cardinality(reqs[r].ids) = 2

\* C6: while a batch create is running, every committed state holds either
\* none of its rows and no balance change of its own, or, from the step that
\* ends it, all of its rows together with the new balance.
C6_BatchVisibleAllOrNothing ==
    [][\A r \in Slots :
         (IsBatch(r) /\ reqs[r].pc \in {"cb_insert", "cb_commit"})
         => LET rec == reqs'[r]
                total == SumSeq(reqs[r].amts)
            IN
            \/ /\ rec.ids \cap DOMAIN txns' = {}
               /\ ~rec.txnDone
               /\ ~rec.accDone
            \/ /\ reqs[r].pc = "cb_commit"
               /\ rec.pc = "done" /\ rec.res = "OK"
               /\ rec.ids # {}
               /\ rec.ids \subseteq DOMAIN txns'
               /\ rec.ids \cap DOMAIN txns = {}
               /\ IF total = 0 THEN accounts' = accounts
                  ELSE /\ rec.accDone
                       /\ accounts'[reqs[r].acc].balance = reqs[r].rdBal + total]_vars

\* a two-row batch is flushed and not committed while another request has
\* read the account of the batch
C6_Witness ==
    \E r, s \in Slots :
        /\ r # s
        /\ IsBatch(r) /\ reqs[r].pc = "cb_commit"
        /\ Cardinality(reqs[r].ids) = 2
        /\ reqs[s].pc = "done" /\ reqs[s].op = "get_account"
        /\ reqs[s].res = "OK" /\ reqs[s].out = {reqs[r].acc}

\* C7: a successful batch create of K transactions, BatchMin <= K <= BatchMax,
\* ends in one step that adds exactly K rows, all on the account of the batch
\* and with the K amounts in order, changes no other row, and changes the
\* balance of that account once, by the sum of the K amounts; the request
\* had written no balance before that step.
C7_BatchPersistsKAndAddsSumOnce ==
    [][\A r \in Slots :
         (IsBatch(r) /\ reqs'[r].pc = "done" /\ reqs'[r].res = "OK"
          /\ reqs[r].pc # "done")
         => LET rec == reqs[r]
                K == Len(rec.amts)
                first == transaction_seq - K
            IN
            /\ rec.pc = "cb_commit"
            /\ K >= BatchMin /\ K <= BatchMax
            /\ ~rec.accDone /\ ~rec.txnDone
            /\ DOMAIN txns' = DOMAIN txns \cup rec.ids
            /\ rec.ids \cap DOMAIN txns = {}
            /\ rec.ids = first .. (first + K - 1)
            /\ \A j \in 1..K :
                 /\ txns'[first + j - 1].account_id = rec.acc
                 /\ txns'[first + j - 1].amount = rec.amts[j]
            /\ \A i \in DOMAIN txns : txns'[i] = txns[i]
            /\ DOMAIN accounts' = DOMAIN accounts
            /\ \A a \in DOMAIN accounts :
                 accounts'[a].balance =
                     accounts[a].balance
                     + (IF a = rec.acc THEN SumSeq(rec.amts) ELSE 0)]_vars

\* a batch of two rows has succeeded
C7_Witness ==
    \E r \in Slots :
        /\ reqs[r].pc = "done" /\ IsBatch(r) /\ reqs[r].res = "OK"
        /\ Cardinality(reqs[r].ids) = 2
        /\ reqs[r].ids \subseteq DOMAIN txns

\* ---- tenants and roles --------------------------------------------------
Done(r) == reqs[r].pc = "done"

Wrote(r) == reqs[r].txnDone \/ reqs[r].accDone

ByIdOps ==
    {"get_account", "update_account", "delete_account",
     "get_transaction", "update_transaction", "delete_transaction"}

WriteOps ==
    {"create_account", "update_account", "delete_account",
     "create_transaction", "create_transaction_batch",
     "update_transaction", "delete_transaction"}

ListOps == {"get_tenant_accounts", "get_transactions"}

\* what get, update and delete answer for an id that is not stored
AbsentOutcome(op, role) ==
    IF op \in {"update_account", "delete_account"} /\ ~can_write(role)
    THEN "Forbidden"
    ELSE "NotFound"

\* C8: an operation whose context is scoped to one tenant and that names an
\* account or a transaction of another tenant is answered NotFound (or is
\* refused for the role before any lookup) and changes nothing, also when
\* the user is a member of both tenants; a list holds rows of the context's
\* tenant only.
C8_TenantIsolation ==
    \A r \in Slots :
        Done(r) =>
            /\ reqs[r].target = "foreign" =>
                 /\ \/ reqs[r].res = "NotFound"
                    \/ (reqs[r].res = "Forbidden" /\ ~can_write(reqs[r].role))
                 /\ ~Wrote(r)
            /\ \A a \in reqs[r].out \cap DOMAIN accounts :
                 accounts[a].tenant_id = reqs[r].tenant

\* C9: get, update and delete answer an id of another tenant exactly as they
\* answer an id that is not stored.
C9_ForeignLikeAbsent ==
    \A r \in Slots :
        (Done(r) /\ reqs[r].op \in ByIdOps
         /\ reqs[r].target \in {"foreign", "absent"})
        => reqs[r].res = AbsentOutcome(reqs[r].op, reqs[r].role)

\* C10: with role VIEWER every create, update and delete of an account or of
\* a transaction is answered Forbidden and changes nothing, and the two list
\* operations succeed.
C10_ViewerReadOnly ==
    \A r \in Slots :
        (Done(r) /\ reqs[r].role = VIEWER)
        => /\ reqs[r].op \in WriteOps =>
                reqs[r].res = "Forbidden" /\ ~Wrote(r)
           /\ reqs[r].op \in ListOps => reqs[r].res = "OK"

\* ---- tokens and the authorization context --------------------------------
NoClaim == "-"

\* the tenant_id claims a token may carry: ids of stored tenants, an id of
\* no tenant, and a text that is no number
TenantClaims == {"1", "2", "3", "x"}

\* a token: `valid` is signature, expiry and the presence of exp
Tokens ==
    {t \in [valid : BOOLEAN, sub : AuthIds \cup {NoClaim},
            tenant_id : TenantClaims \cup {NoClaim}] :
        ~t.valid => (t.sub = "u1" /\ t.tenant_id = "1")}

\* security.decode_jwt
decode_jwt(t) == t.valid /\ t.sub # NoClaim

\* security.extract_user_id
extract_user_id(t) == decode_jwt(t)

\* security.extract_user_and_tenant
extract_user_and_tenant_sub_only(t) == decode_jwt(t)

extract_user_and_tenant(t) ==
    decode_jwt(t) /\ t.sub # NoClaim /\ t.tenant_id # NoClaim

\* int(tenant_id_str): the number, or 0 for ValueError
ParseInt(str) ==
    CASE str = "1" -> 1
      [] str = "2" -> 2
      [] str = "3" -> 3
      [] OTHER -> 0

\* TenantContext
is_owner_or_admin(role) == role \in {OWNER, ADMIN}

is_owner(role) == role = OWNER

is_admin_or_higher(role) == role \in {OWNER, ADMIN}

\* ---- repositories of users, tenants and memberships ----------------------
User_get_by_auth_id(U, auth_user_id) ==
    {u \in DOMAIN U : U[u].auth_user_id = auth_user_id}

get_membership(M, user_id, tenant_id) ==
    {m \in DOMAIN M : M[m].user_id = user_id /\ M[m].tenant_id = tenant_id}

get_user_memberships(M, user_id) == {m \in DOMAIN M : M[m].user_id = user_id}

\* users.auth_user_id is unique
uq_auth_user_id_off(U, auth_user_id) == TRUE

uq_auth_user_id(U, auth_user_id) == User_get_by_auth_id(U, auth_user_id) = {}

\* UniqueConstraint("tenant_id", "user_id", name="uq_tenant_user")
uq_tenant_user_off(M, tenant_id, user_id) == TRUE

uq_tenant_user(M, tenant_id, user_id) ==
    get_membership(M, user_id, tenant_id) = {}

\* one round trip of request r on the tables users, tenants, memberships
TStep(r, rec, nu, nt, nm) ==
    /\ UNCHANGED trip
    /\ users' = nu
    /\ tenants' = nt
    /\ memberships' = nm
    /\ reqs' = [reqs EXCEPT ![r] =
                  [rec EXCEPT !.usrDone = @ \/ (nu # users),
                              !.tenDone = @ \/ (nt # tenants),
                              !.memDone = @ \/ (nm # memberships)]]

\* a request arrives with a bearer token, for a route that depends on
\* get_tenant_context ("ctx") or on get_current_user ("gcu")
Receive(r, limit, cap) ==
    /\ reqs[r].pc = "idle"
    /\ \A s \in Slots : s < r => reqs[s].pc # "idle"
    /\ nreq < cap
    /\ Cardinality(InFlight) < limit
    /\ \E t \in Tokens, dep \in {"ctx", "gcu"} :
         reqs' = [reqs EXCEPT ![r] =
                    [Idle EXCEPT !.pc = "token", !.dep = dep,
                                 !.valid = t.valid, !.sub = t.sub,
                                 !.tclaim = t.tenant_id]]
    /\ nreq' = nreq + 1
    /\ UNCHANGED <<storeVars, authVars, trip>>

TokenOf(rec) == [valid |-> rec.valid, sub |-> rec.sub, tenant_id |-> rec.tclaim]

\* get_tenant_context, lines 70-73 and 99-110: the claims, then int()
get_tenant_context_token(r) ==
    /\ reqs[r].pc = "token" /\ reqs[r].dep = "ctx"
    /\ LET rec == reqs[r]
           tenant_id == ParseInt(rec.tclaim)
       IN
       IF ~extract_user_and_tenant(TokenOf(rec))
       THEN TStep(r, Fin(rec, "Unauthorized"), users, tenants, memberships)
       ELSE IF tenant_id = 0
       THEN TStep(r, Fin(rec, "BadRequest"), users, tenants, memberships)
       ELSE TStep(r, [rec EXCEPT !.pc = "goc_query", !.auth = rec.sub,
                                 !.ret = "ctx_tenant", !.tid = tenant_id],
                  users, tenants, memberships)
    /\ UNCHANGED <<storeVars, user_seq, membership_seq, nreq>>

\* get_current_user, lines 32-34 and 42-47
get_current_user_token(r) ==
    /\ reqs[r].pc = "token" /\ reqs[r].dep = "gcu"
    /\ LET rec == reqs[r] IN
       IF ~extract_user_id(TokenOf(rec))
       THEN TStep(r, Fin(rec, "Unauthorized"), users, tenants, memberships)
       ELSE TStep(r, [rec EXCEPT !.pc = "goc_query", !.auth = rec.sub,
                                 !.ret = "run_user"],
                  users, tenants, memberships)
    /\ UNCHANGED <<storeVars, user_seq, membership_seq, nreq>>

\* UserRepository.get_or_create_by_auth_id, line 24: the query
get_or_create_by_auth_id_query(r) ==
    /\ reqs[r].pc = "goc_query"
    /\ LET rec == reqs[r]
           found == User_get_by_auth_id(users, rec.auth)
       IN
       IF found = {}
       THEN TStep(r, [rec EXCEPT !.pc = "goc_insert"], users, tenants, memberships)
       ELSE \E u \in found :
              TStep(r, [rec EXCEPT !.pc = rec.ret, !.uid = u],
                    users, tenants, memberships)
    /\ UNCHANGED <<storeVars, user_seq, membership_seq, nreq>>

get_or_create_by_auth_id_insert_lost(r) ==
    /\ reqs[r].pc = "goc_insert"
    /\ user_seq <= MaxUsers
    /\ TStep(r, [reqs[r] EXCEPT !.pc = reqs[r].ret, !.uid = user_seq],
             users, tenants, memberships)
    /\ user_seq' = user_seq + 1
    /\ UNCHANGED <<storeVars, membership_seq, nreq>>

\* lines 26-30: add, COMMIT, refresh; the unique index on auth_user_id makes
\* the INSERT of a second row of one identity raise IntegrityError
get_or_create_by_auth_id_insert(r) ==
    /\ reqs[r].pc = "goc_insert"
    /\ LET rec == reqs[r] IN
       IF ~uq_auth_user_id(users, rec.auth)
       THEN /\ TStep(r, Fin(rec, "Error"), users, tenants, memberships)
            /\ UNCHANGED user_seq
       ELSE /\ user_seq <= MaxUsers
            /\ TStep(r, [rec EXCEPT !.pc = rec.ret, !.uid = user_seq],
                     users @@ (user_seq :> [auth_user_id |-> rec.auth]),
                     tenants, memberships)
            /\ user_seq' = user_seq + 1
    /\ UNCHANGED <<storeVars, membership_seq, nreq>>

\* get_tenant_context, lines 79-97: the tenant, the membership, the context
get_tenant_context_tenant(r) ==
    /\ reqs[r].pc = "ctx_tenant"
    /\ LET rec == reqs[r]
           found == get_membership(memberships, rec.uid, rec.tid)
       IN
       IF rec.tid \notin DOMAIN tenants
       THEN TStep(r, Fin(rec, "NotFound"), users, tenants, memberships)
       ELSE IF found = {}
       THEN TStep(r, Fin(rec, "Forbidden"), users, tenants, memberships)
       ELSE \E m \in found :
              TStep(r, [rec EXCEPT !.pc = "run", !.user = rec.uid,
                                   !.tenant = rec.tid,
                                   !.role = memberships[m].role],
                    users, tenants, memberships)
    /\ UNCHANGED <<storeVars, user_seq, membership_seq, nreq>>

\* ---- TenantService -------------------------------------------------------
\* TenantInviteRequest.role: default MEMBER
TenantInviteRequest_role(given) == IF given = NoRole THEN MEMBER ELSE given

\* "Cannot change owner's role", "Cannot remove owner from tenant"
owner_protected_never(role) == FALSE

owner_protected(role) == role = OWNER

tenant_entries_first(M, T, ids) ==
    IF ids = {} THEN <<>>
    ELSE LET m == CHOOSE x \in ids : \A y \in ids : x <= y IN
         <<[id |-> M[m].tenant_id, role |-> M[m].role]>>

\* lines 43-55: one entry for every membership whose tenant is found
RECURSIVE tenant_entries(_, _, _)
tenant_entries(M, T, ids) ==
    IF ids = {} THEN <<>>
    ELSE LET m == CHOOSE x \in ids : \A y \in ids : x <= y
             rest == tenant_entries(M, T, ids \ {m})
         IN
         IF M[m].tenant_id \in DOMAIN T
         THEN <<[id |-> M[m].tenant_id, role |-> M[m].role]>> \o rest
         ELSE rest

list_user_tenants(r) ==
    /\ reqs[r].pc = "run_user"
    /\ LET rec == [reqs[r] EXCEPT !.op = "list_user_tenants", !.user = reqs[r].uid]
           mine == get_user_memberships(memberships, rec.user)
       IN
       TStep(r, Fin([rec EXCEPT
                        !.out = {memberships[m].tenant_id : m \in mine}
                                    \cap DOMAIN tenants,
                        !.listed = tenant_entries(memberships, tenants, mine)],
                    "OK"),
             users, tenants, memberships)
    /\ UNCHANGED <<storeVars, user_seq, membership_seq, nreq>>

update_tenant(r) ==
    /\ reqs[r].pc = "run"
    /\ \E name \in Names :
         LET rec == [reqs[r] EXCEPT !.op = "update_tenant"] IN
         IF ~is_owner(rec.role)
         THEN TStep(r, Fin(rec, "Forbidden"), users, tenants, memberships)
         ELSE TStep(r, Fin(rec, "OK"), users,
                    [tenants EXCEPT ![rec.tenant].name = name], memberships)
    /\ UNCHANGED <<storeVars, user_seq, membership_seq, nreq>>

\* invite_member, lines 136-140: the inviter's role, then the invitee's user
invite_member_check(r) ==
    /\ reqs[r].pc = "run"
    /\ \E auth_user_id \in AuthIds, given \in TenantRole \cup {NoRole} :
         LET rec == [reqs[r] EXCEPT !.op = "invite_member", !.reqRole = given,
                        !.newRole = TenantInviteRequest_role(given),
                        !.auth = auth_user_id] IN
         IF ~is_admin_or_higher(rec.role)
         THEN TStep(r, Fin(rec, "Forbidden"), users, tenants, memberships)
         ELSE TStep(r, [rec EXCEPT !.pc = "goc_query", !.ret = "im_member"],
                    users, tenants, memberships)
    /\ UNCHANGED <<storeVars, user_seq, membership_seq, nreq>>

invite_member_member_unchecked(r) ==
    /\ reqs[r].pc = "im_member"
    /\ LET rec == reqs[r] IN
       IF rec.newRole = OWNER /\ ~is_owner(rec.role)
       THEN TStep(r, Fin(rec, "Forbidden"), users, tenants, memberships)
       ELSE TStep(r, [rec EXCEPT !.pc = "im_create"], users, tenants, memberships)
    /\ UNCHANGED <<storeVars, user_seq, membership_seq, nreq>>

\* lines 142-151: already a member, then OWNER only from an OWNER
invite_member_member(r) ==
    /\ reqs[r].pc = "im_member"
    /\ LET rec == reqs[r] IN
       IF get_membership(memberships, rec.uid, rec.tenant) # {}
       THEN TStep(r, Fin(rec, "Validation"), users, tenants, memberships)
       ELSE IF rec.newRole = OWNER /\ ~is_owner(rec.role)
       THEN TStep(r, Fin(rec, "Forbidden"), users, tenants, memberships)
       ELSE TStep(r, [rec EXCEPT !.pc = "im_create"], users, tenants, memberships)
    /\ UNCHANGED <<storeVars, user_seq, membership_seq, nreq>>

\* lines 153-159, TenantMembershipRepository.create: add, COMMIT, refresh;
\* uq_tenant_user makes the INSERT of a second row of the pair raise
invite_member_create(r) ==
    /\ reqs[r].pc = "im_create"
    /\ LET rec == reqs[r] IN
       IF ~uq_tenant_user(memberships, rec.tenant, rec.uid)
       THEN /\ TStep(r, Fin(rec, "Error"), users, tenants, memberships)
            /\ UNCHANGED membership_seq
       ELSE /\ membership_seq <= MaxMemberships
            /\ TStep(r, Fin([rec EXCEPT !.memId = membership_seq], "OK"),
                     users, tenants,
                     memberships @@ (membership_seq :>
                         [tenant_id |-> rec.tenant, user_id |-> rec.uid,
                          role |-> rec.newRole]))
            /\ membership_seq' = membership_seq + 1
    /\ UNCHANGED <<storeVars, user_seq, nreq>>

\* the ForbiddenException raised by a request, with its message
Refuse(rec, message) == Fin([rec EXCEPT !.detail = message], "Forbidden")

update_member_role_load_owner_first(r) ==
    /\ reqs[r].pc = "run"
    /\ \E user_id \in Users, role \in TenantRole :
         LET rec == [reqs[r] EXCEPT !.op = "update_member_role", !.uid = user_id,
                        !.member = user_id, !.newRole = role]
             found == get_membership(memberships, user_id, rec.tenant)
         IN
         IF ~is_owner(rec.role)
         THEN TStep(r, Refuse(rec, "Only owner can change member roles"),
                    users, tenants, memberships)
         ELSE IF found = {}
         THEN TStep(r, Fin(rec, "NotFound"), users, tenants, memberships)
         ELSE \E m \in found :
                IF owner_protected(memberships[m].role)
                THEN TStep(r, Refuse(rec, "Cannot change owner's role"),
                           users, tenants, memberships)
                ELSE IF user_id = rec.user
                THEN TStep(r, Refuse(rec, "Cannot change your own role"),
                           users, tenants, memberships)
                ELSE TStep(r, [rec EXCEPT !.pc = "umr_commit", !.memId = m,
                                          !.oldRole = memberships[m].role],
                           users, tenants, memberships)
    /\ UNCHANGED <<storeVars, user_seq, membership_seq, nreq>>

\* update_member_role, lines 178-193: the caller's role, the membership, the
\* caller's own membership, the owner's membership
update_member_role_load(r) ==
    /\ reqs[r].pc = "run"
    /\ \E user_id \in Users, role \in TenantRole :
         LET rec == [reqs[r] EXCEPT !.op = "update_member_role", !.uid = user_id,
                        !.member = user_id, !.newRole = role]
             found == get_membership(memberships, user_id, rec.tenant)
         IN
         IF ~is_owner(rec.role)
         THEN TStep(r, Refuse(rec, "Only owner can change member roles"),
                    users, tenants, memberships)
         ELSE IF found = {}
         THEN TStep(r, Fin(rec, "NotFound"), users, tenants, memberships)
         ELSE \E m \in found :
                IF user_id = rec.user
                THEN TStep(r, Refuse(rec, "Cannot change your own role"),
                           users, tenants, memberships)
                ELSE IF owner_protected(memberships[m].role)
                THEN TStep(r, Refuse(rec, "Cannot change owner's role"),
                           users, tenants, memberships)
                ELSE TStep(r, [rec EXCEPT !.pc = "umr_commit", !.memId = m,
                                          !.oldRole = memberships[m].role],
                           users, tenants, memberships)
    /\ UNCHANGED <<storeVars, user_seq, membership_seq, nreq>>

\* lines 196-197, TenantMembershipRepository.update: COMMIT (an UPDATE when
\* the role differs from the loaded one), refresh; a row removed in between
\* makes the UPDATE or the refresh raise
update_member_role_commit(r) ==
    /\ reqs[r].pc = "umr_commit"
    /\ LET rec == reqs[r] IN
       IF rec.memId \notin DOMAIN memberships
       THEN TStep(r, Fin(rec, "Error"), users, tenants, memberships)
       ELSE TStep(r, Fin(rec, "OK"), users, tenants,
                  IF rec.newRole = rec.oldRole THEN memberships
                  ELSE [memberships EXCEPT ![rec.memId].role = rec.newRole])
    /\ UNCHANGED <<storeVars, user_seq, membership_seq, nreq>>

\* remove_member, lines 211-225
remove_member_load(r) ==
    /\ reqs[r].pc = "run"
    /\ \E user_id \in Users :
         LET rec == [reqs[r] EXCEPT !.op = "remove_member", !.uid = user_id,
                        !.member = user_id]
             found == get_membership(memberships, user_id, rec.tenant)
         IN
         IF ~is_admin_or_higher(rec.role)
         THEN TStep(r, Refuse(rec, "Only admins and owners can remove members"),
                    users, tenants, memberships)
         ELSE IF found = {}
         THEN TStep(r, Fin(rec, "NotFound"), users, tenants, memberships)
         ELSE \E m \in found :
                IF user_id = rec.user
                THEN TStep(r, Refuse(rec, "Cannot remove yourself from tenant"),
                           users, tenants, memberships)
                ELSE IF owner_protected(memberships[m].role)
                THEN TStep(r, Refuse(rec, "Cannot remove owner from tenant"),
                           users, tenants, memberships)
                ELSE TStep(r, [rec EXCEPT !.pc = "rm_delete", !.memId = m,
                                          !.oldRole = memberships[m].role],
                           users, tenants, memberships)
    /\ UNCHANGED <<storeVars, user_seq, membership_seq, nreq>>

\* line 228, TenantMembershipRepository.delete: DELETE, COMMIT
remove_member_delete(r) ==
    /\ reqs[r].pc = "rm_delete"
    /\ TStep(r, Fin(reqs[r], "OK"), users, tenants,
             Without(memberships, {reqs[r].memId}))
    /\ UNCHANGED <<storeVars, user_seq, membership_seq, nreq>>

ContextSteps(r) ==
    \/ get_tenant_context_token(r)
    \/ get_current_user_token(r)
    \/ get_or_create_by_auth_id_query(r)
    \/ get_or_create_by_auth_id_insert(r)
    \/ get_tenant_context_tenant(r)

TenantHandlers(r) ==
    \/ list_user_tenants(r)
    \/ update_tenant(r)
    \/ invite_member_check(r)
    \/ invite_member_member(r)
    \/ invite_member_create(r)
    \/ update_member_role_load(r)
    \/ update_member_role_commit(r)
    \/ remove_member_load(r)
    \/ remove_member_delete(r)

\* tenant management, requests one after the other
NextTenant ==
    \E r \in Slots :
        \/ Receive(r, 1, MaxRequests)
        \/ ContextSteps(r)
        \/ TenantHandlers(r)
        \/ Respond(r)

SpecTenant == Init /\ [][NextTenant]_vars

\* tenant management, one request per slot, in flight at the same time
NextTenantConc ==
    \E r \in Slots :
        \/ Receive(r, Cardinality(Slots), Cardinality(Slots))
        \/ ContextSteps(r)
        \/ TenantHandlers(r)
        \/ Respond(r)

SpecTenantConc == Init /\ [][NextTenantConc]_vars

\* ---- owners and memberships ----------------------------------------------
Owners(M, t) == {m \in DOMAIN M : M[m].tenant_id = t /\ M[m].role = OWNER}

\* C11: every tenant has exactly one membership of role OWNER in every state
\* that invite_member, update_member_role and remove_member can reach.
C11_ExactlyOneOwner ==
    \A t \in DOMAIN tenants : Cardinality(Owners(memberships, t)) = 1

\* C12: no update_member_role and no remove_member succeeds with an effect
\* that leaves its tenant with no OWNER or with more than one; a change to
\* role OWNER in a tenant that has an OWNER is rejected and changes nothing.
C12_OwnerCountKeptByRoleChangeAndRemoval ==
    [][\A r \in Slots :
         (reqs[r].op \in {"update_member_role", "remove_member"}
          /\ reqs[r].pc \in {"umr_commit", "rm_delete"}
          /\ reqs'[r].pc = "done")
         => /\ reqs'[r].res = "OK"
               => Cardinality(Owners(memberships', reqs[r].tenant)) = 1
            /\ (reqs[r].op = "update_member_role" /\ reqs[r].newRole = OWNER
                /\ Owners(memberships, reqs[r].tenant) # {})
               => reqs'[r].res # "OK" /\ memberships' = memberships]_vars

\* C13: a tenant that has an OWNER keeps at least one, whoever acts and
\* however the requests interleave.
C13_NeverWithoutOwner ==
    [][\A t \in DOMAIN tenants :
         Owners(memberships, t) # {} => Owners(memberships', t) # {}]_vars

\* a tenant has two owners and a request to change or remove one of them
\* has been refused
C13_Witness ==
    \E r \in Slots :
        /\ reqs[r].pc = "done"
        /\ reqs[r].op \in {"update_member_role", "remove_member"}
        /\ reqs[r].res = "Forbidden"
        /\ is_admin_or_higher(reqs[r].role)
        /\ Cardinality(Owners(memberships, reqs[r].tenant)) = 2
        /\ \E m \in Owners(memberships, reqs[r].tenant) :
             memberships[m].user_id # reqs[r].user

\* C14: at most one membership exists for every pair of tenant and user, and
\* an INSERT of a second one, as the later of two concurrent invites issues
\* it, fails and leaves the memberships as they were.
C14_OneMembershipPerPair ==
    /\ [](\A m1, m2 \in DOMAIN memberships :
            (memberships[m1].tenant_id = memberships[m2].tenant_id
             /\ memberships[m1].user_id = memberships[m2].user_id) => m1 = m2)
    /\ [][\A r \in Slots :
            (reqs[r].pc = "im_create" /\ reqs'[r].pc = "done"
             /\ get_membership(memberships, reqs[r].uid, reqs[r].tenant) # {})
            => reqs'[r].res = "Error" /\ memberships' = memberships]_vars

\* two invites of one user into one tenant overlapped: one has created the
\* membership, the INSERT of the other has failed
C14_Witness ==
    \E r \in Slots :
        /\ reqs[r].pc = "done" /\ reqs[r].op = "invite_member"
        /\ reqs[r].res = "Error" /\ reqs[r].at = "im_create"
        /\ ~reqs[r].memDone

\* C15: no two rows of users carry one identity, however often and however
\* concurrently it is resolved, and a resolve that finds the row returns it
\* and changes nothing.
C15_OneUserPerIdentity ==
    /\ [](\A u1, u2 \in DOMAIN users :
            users[u1].auth_user_id = users[u2].auth_user_id => u1 = u2)
    /\ [][\A r \in Slots :
            (reqs[r].pc = "goc_query"
             /\ User_get_by_auth_id(users, reqs[r].auth) # {}
             /\ reqs'[r] # reqs[r])
            => /\ users' = users
               /\ reqs'[r].pc = reqs[r].ret
               /\ reqs'[r].uid \in User_get_by_auth_id(users, reqs[r].auth)]_vars

\* two resolves of a new identity overlapped: one has created the row, the
\* INSERT of the other has failed
C15_Witness ==
    \E r \in Slots :
        /\ reqs[r].pc = "done" /\ reqs[r].res = "Error"
        /\ reqs[r].at = "goc_insert"
        /\ \E u \in DOMAIN users : users[u].auth_user_id = "u3"

\* the operations of tenant management that write, and the role each needs
TenantMutations ==
    {"update_tenant", "invite_member", "update_member_role", "remove_member"}

SufficientRole(op, role) ==
    IF op \in {"update_tenant", "update_member_role"}
    THEN role = OWNER
    ELSE role \in {OWNER, ADMIN}

\* the step that ends request r
Ends(r) == reqs[r].pc # "done" /\ reqs'[r].pc = "done"

\* C16: a tenant-management mutation succeeds only with a sufficient role
\* (update-tenant-name and update-member-role: OWNER; invite-member and
\* remove-member: OWNER or ADMIN); with a lower role it ends Forbidden and
\* has changed neither the tenant nor the memberships.
C16_MutationsNeedRole ==
    [][\A r \in Slots :
         (Ends(r) /\ reqs'[r].op \in TenantMutations) =>
           LET d == reqs'[r] IN
           /\ d.res = "OK" => SufficientRole(d.op, d.role)
           /\ ~SufficientRole(d.op, d.role) =>
                /\ d.res = "Forbidden"
                /\ tenants' = tenants /\ memberships' = memberships
                /\ ~d.tenDone /\ ~d.memDone]_vars

\* an ADMIN has tried to rename the tenant and was refused
C16_Witness ==
    \E r \in Slots :
        /\ reqs[r].pc = "done" /\ reqs[r].op = "update_tenant"
        /\ reqs[r].role = ADMIN /\ reqs[r].res = "Forbidden"

\* an invite that gives no role creates a MEMBER
InviteDefaultsToMember(r) ==
    (Ends(r) /\ reqs'[r].op = "invite_member" /\ reqs'[r].res = "OK"
     /\ reqs'[r].reqRole = NoRole)
    => \E m \in DOMAIN memberships' \ DOMAIN memberships :
         /\ memberships'[m].role = MEMBER
         /\ DOMAIN memberships' = DOMAIN memberships \cup {m}

\* C17: an invite that requests OWNER from an inviter who is not
\* OWNER ends Forbidden and creates no membership; an invite that gives no
\* role creates a MEMBER.
C17_OwnerInviteForbidden ==
    [][\A r \in Slots :
         /\ (Ends(r) /\ reqs'[r].op = "invite_member"
             /\ reqs'[r].reqRole = OWNER /\ reqs'[r].role # OWNER)
            => reqs'[r].res = "Forbidden" /\ memberships' = memberships
         /\ InviteDefaultsToMember(r)]_vars

\* the tenant_id claims that int() accepts
NumericClaims == {"1", "2", "3"}

\* the outcome of building the context for token t over the tables U, T, M,
\* check by check
ContextOutcome(t, U, T, M) ==
    IF ~t.valid \/ t.sub = NoClaim \/ t.tenant_id = NoClaim
    THEN "Unauthorized"
    ELSE IF t.tenant_id \notin NumericClaims
    THEN "BadRequest"
    ELSE IF ParseInt(t.tenant_id) \notin DOMAIN T
    THEN "NotFound"
    ELSE IF ~\E m \in DOMAIN M :
               /\ M[m].tenant_id = ParseInt(t.tenant_id)
               /\ M[m].user_id \in DOMAIN U
               /\ U[M[m].user_id].auth_user_id = t.sub
    THEN "Forbidden"
    ELSE "context"

\* request r is building its context, and this step ends the building
BuildsContext(r) ==
    /\ reqs[r].dep = "ctx"
    /\ \/ reqs[r].pc \in {"token", "ctx_tenant"}
       \/ reqs[r].pc \in {"goc_query", "goc_insert"} /\ reqs[r].ret = "ctx_tenant"
    /\ reqs'[r].pc \in {"done", "run"}

\* C18: building the context checks in the order token (Unauthorized),
\* tenant id (BadRequest), tenant (NotFound), membership (Forbidden); the
\* first check that fails decides the outcome, and when none fails the
\* context carries the user of the token, the tenant of the token and the
\* role the membership stores.
C18_ContextCheckOrder ==
    [][\A r \in Slots :
         BuildsContext(r) =>
           LET t == TokenOf(reqs[r])
               outcome == ContextOutcome(t, users', tenants', memberships')
           IN
           IF outcome = "context"
           THEN /\ reqs'[r].pc = "run"
                /\ reqs'[r].user \in DOMAIN users'
                /\ users'[reqs'[r].user].auth_user_id = t.sub
                /\ reqs'[r].tenant = ParseInt(t.tenant_id)
                /\ \E m \in DOMAIN memberships' :
                     /\ memberships'[m].tenant_id = reqs'[r].tenant
                     /\ memberships'[m].user_id = reqs'[r].user
                     /\ memberships'[m].role = reqs'[r].role
           ELSE /\ reqs'[r].pc = "done"
                /\ reqs'[r].res = outcome]_vars

\* a token of a new identity names an absent tenant: the tenant and the
\* membership are both missing, and the outcome is NotFound
C18_Witness ==
    \E r \in Slots :
        /\ reqs[r].pc = "done" /\ reqs[r].op = "-"
        /\ reqs[r].res = "NotFound" /\ reqs[r].at = "ctx_tenant"
        /\ reqs[r].usrDone

\* C19: when building the context ends NotFound or Forbidden, the users
\* table holds the row of the token's subject afterwards, created by the
\* call when it was not there.
C19_UserRowSurvivesFailure ==
    [][\A r \in Slots :
         (BuildsContext(r) /\ reqs'[r].pc = "done"
          /\ reqs'[r].res \in {"NotFound", "Forbidden"})
         => /\ \E u \in DOMAIN users' : users'[u].auth_user_id = reqs[r].sub
            /\ reqs'[r].usrDone =>
                 \E u \in DOMAIN users' :
                     /\ users'[u].auth_user_id = reqs[r].sub
                     /\ u = reqs[r].uid]_vars

\* a token of a new identity names a tenant the identity is no member of:
\* the call has created the row and ended Forbidden
C19_Witness ==
    \E r \in Slots :
        /\ reqs[r].pc = "done" /\ reqs[r].op = "-"
        /\ reqs[r].res = "Forbidden" /\ reqs[r].at = "ctx_tenant"
        /\ reqs[r].usrDone
        /\ \E u \in DOMAIN users : users[u].auth_user_id = "u3"

\* entries i, i+1, i+2 of the log are the create, the update of the amount and
\* the delete of one transaction
IsRoundTrip(i) ==
    /\ i + 2 <= Len(trip.log)
    /\ trip.log[i].op = "create_transaction"
    /\ trip.log[i + 1].op = "update_transaction"
    /\ trip.log[i + 1].amts # <<>>
    /\ trip.log[i + 2].op = "delete_transaction"
    /\ trip.log[i + 1].txn = trip.log[i].txn
    /\ trip.log[i + 2].txn = trip.log[i].txn

\* C20: on an account with balance b, creating a transaction of amount a
\* gives balance b + a, updating its amount to a2 gives b + a2, and deleting
\* it gives b again.
C20_RoundTrip ==
    \A i \in 1..Len(trip.log) :
        IsRoundTrip(i) =>
            LET b == trip.log[i].before IN
            /\ trip.log[i].after = b + trip.log[i].amts[1]
            /\ trip.log[i + 1].after = b + trip.log[i + 1].amts[1]
            /\ trip.log[i + 2].after = b

\* a complete round trip with amounts of opposite sign
C20_Witness ==
    /\ IsRoundTrip(1)
    /\ trip.log[1].amts[1] > 0
    /\ trip.log[2].amts[1] < 0

\* ---- batch size ------------------------------------------------------------
\* the request carried a batch of fewer than 1 or more than 100 transactions
OutOfRange(r) ==
    /\ reqs[r].pc = "done" /\ IsBatch(r)
    /\ (reqs[r].size < 1 \/ reqs[r].size > 100)

\* the request has persisted no transaction and changed no balance
PersistedNothing(r) ==
    /\ reqs[r].ids \cap DOMAIN txns = {}
    /\ ~reqs[r].txnDone
    /\ ~reqs[r].accDone

\* C21: a batch create of fewer than 1 or more than 100 transactions is
\* rejected with Validation, persists no transaction and changes no balance.
C21_BatchSizeRejected ==
    \A r \in Slots :
        OutOfRange(r) => reqs[r].res = "Validation" /\ PersistedNothing(r)

\* C21, with the check that runs first: such a batch persists nothing and is
\* rejected, with Validation when the account is one the caller created and
\* with NotFound when it is not.
C21_BatchSizeRejectedAfterAccountCheck ==
    \A r \in Slots :
        OutOfRange(r) =>
            /\ PersistedNothing(r)
            /\ reqs[r].res =
                 IF /\ reqs[r].acc \in DOMAIN accounts
                    /\ accounts[reqs[r].acc].user_id = reqs[r].user
                 THEN "Validation" ELSE "NotFound"

\* a batch of 101 transactions on the caller's account has been rejected
C21_Witness ==
    \E r \in Slots :
        /\ OutOfRange(r) /\ reqs[r].size = 101
        /\ reqs[r].res = "Validation"
        /\ accounts[reqs[r].acc].user_id = reqs[r].user

\* ---- invite of a member ---------------------------------------------------
\* the identity has a membership in the tenant
IsMember(U, M, auth_user_id, tenant_id) ==
    \E m \in DOMAIN M :
        /\ M[m].tenant_id = tenant_id
        /\ M[m].user_id \in DOMAIN U
        /\ U[M[m].user_id].auth_user_id = auth_user_id

\* this step ends an invite by request r of an identity that is a member
InviteOfMemberEnds(r) ==
    /\ Ends(r) /\ reqs'[r].op = "invite_member"
    /\ IsMember(users, memberships, reqs'[r].auth, reqs'[r].tenant)

\* C22: an invite of a user who already is a member of the tenant ends with
\* Validation, and no membership, that user's included, has changed.
C22_InviteOfMemberIsValidation ==
    [][\A r \in Slots :
         InviteOfMemberEnds(r) =>
             /\ reqs'[r].res = "Validation"
             /\ memberships' = memberships]_vars

\* C22, with the check that runs first: such an invite changes no membership
\* and ends with Validation when the inviter is OWNER or ADMIN, with Forbidden
\* when the inviter is MEMBER or VIEWER.
C22_InviteOfMemberIsValidationForAdmins ==
    [][\A r \in Slots :
         InviteOfMemberEnds(r) =>
             /\ memberships' = memberships
             /\ ~reqs'[r].memDone
             /\ reqs'[r].res =
                  IF reqs'[r].role \in {OWNER, ADMIN}
                  THEN "Validation" ELSE "Forbidden"]_vars

\* an OWNER has invited a member of the tenant and got Validation
C22_Witness ==
    \E r \in Slots :
        /\ reqs[r].pc = "done" /\ reqs[r].op = "invite_member"
        /\ reqs[r].res = "Validation" /\ reqs[r].role = OWNER
        /\ IsMember(users, memberships, reqs[r].auth, reqs[r].tenant)

\* ---- cascade ----------------------------------------------------------------
\* C23: every stored transaction references a stored account; an account
\* delete removes the account with all its transactions, and a get of a
\* transaction that is not stored, a former transaction of a deleted account
\* included, ends NotFound.
C23_CascadeLeavesNoOrphan ==
    /\ [](\A t \in DOMAIN txns : txns[t].account_id \in DOMAIN accounts)
    /\ [][\A r \in Slots :
            /\ (Ends(r) /\ reqs'[r].op = "delete_account" /\ reqs'[r].res = "OK")
               => /\ reqs'[r].acc \notin DOMAIN accounts'
                  /\ \A t \in DOMAIN txns' :
                       txns'[t].account_id # reqs'[r].acc
            /\ (Ends(r) /\ reqs'[r].op = "get_transaction"
                /\ reqs'[r].txn \notin DOMAIN txns)
               => reqs'[r].res = "NotFound"]_vars

\* ---- tenant scope and user scope ---------------------------------------------
\* the stored transaction is on an account of the tenant / of the user
TxnOfTenant(t, tenant_id) ==
    /\ t \in DOMAIN txns
    /\ txns[t].account_id \in DOMAIN accounts
    /\ accounts[txns[t].account_id].tenant_id = tenant_id

TxnOfOtherUser(t, user_id) ==
    /\ t \in DOMAIN txns
    /\ txns[t].account_id \in DOMAIN accounts
    /\ accounts[txns[t].account_id].user_id # user_id

AccountOfOtherUser(a, user_id) ==
    a \in DOMAIN accounts /\ accounts[a].user_id # user_id

\* C24: for a member of a tenant, whatever the role, list-accounts returns all
\* accounts of the tenant, whoever created them, get-transaction returns every
\* transaction on an account of the tenant, and list-transactions succeeds
\* for every account of the tenant and for the tenant as a whole.
C24_ScopedByTenant ==
    \A r \in Slots :
        Done(r) =>
            /\ reqs[r].op = "get_tenant_accounts" =>
                 /\ reqs[r].res = "OK"
                 /\ reqs[r].out =
                      {a \in DOMAIN accounts : accounts[a].tenant_id = reqs[r].tenant}
            /\ (reqs[r].op = "get_transaction"
                /\ TxnOfTenant(reqs[r].txn, reqs[r].tenant))
               => reqs[r].res = "OK"
            /\ (reqs[r].op = "get_transactions"
                /\ (reqs[r].acc = 0 \/ reqs[r].target = "own"))
               => reqs[r].res = "OK"

\* get, update, delete and create on a transaction or an account of another
\* user end NotFound and change nothing
OtherUsersRowsAreNotFound(r) ==
    /\ (reqs[r].op \in {"get_transaction", "update_transaction", "delete_transaction"}
        /\ TxnOfOtherUser(reqs[r].txn, reqs[r].user))
       => reqs[r].res = "NotFound" /\ ~Wrote(r)
    /\ (reqs[r].op \in {"create_transaction", "create_transaction_batch",
                        "get_transactions"}
        /\ AccountOfOtherUser(reqs[r].acc, reqs[r].user))
       => reqs[r].res = "NotFound" /\ ~Wrote(r)

\* C25: get, update and delete of a transaction on an account another user
\* created, and create on such an account, end NotFound and change nothing;
\* list-transactions returns transactions of the caller's own accounts only.
C25_ScopedByUser ==
    \A r \in Slots :
        Done(r) =>
            /\ OtherUsersRowsAreNotFound(r)
            /\ (reqs[r].op = "get_transactions"
                /\ ~AccountOfOtherUser(reqs[r].acc, reqs[r].user)
                /\ reqs[r].acc \in {0} \cup DOMAIN accounts)
               => /\ reqs[r].res = "OK"
                  /\ \A t \in reqs[r].out : ~TxnOfOtherUser(t, reqs[r].user)

\* ---- list-my-tenants ---------------------------------------------------------
\* the memberships of the user of an identity
MembershipsOf(U, M, auth_user_id) ==
    {m \in DOMAIN M : /\ M[m].user_id \in DOMAIN U
                      /\ U[M[m].user_id].auth_user_id = auth_user_id}

\* request r lists its tenants with a token that has a subject and no tenant
\* claim
ListsMyTenants(r) ==
    /\ reqs[r].dep = "gcu"
    /\ reqs[r].valid /\ reqs[r].sub # NoClaim /\ reqs[r].tclaim = NoClaim
    /\ \/ reqs[r].pc \in {"token", "run_user"}
       \/ reqs[r].pc \in {"goc_query", "goc_insert"} /\ reqs[r].ret = "run_user"
    /\ reqs'[r] # reqs[r]

\* C26: with a token that has a valid subject and no tenant claim,
\* list-my-tenants succeeds, and its list has one entry for each membership
\* of the user, with the tenant and the role of that membership, and no
\* other entry; it is empty when the user has no membership.
C26_ListMyTenants ==
    [][\A r \in Slots :
         ListsMyTenants(r) =>
             IF reqs'[r].pc # "done"
             THEN reqs[r].pc # "run_user"
             ELSE LET mine == MembershipsOf(users', memberships', reqs[r].sub)
                      list == reqs'[r].listed
                  IN
                  /\ reqs'[r].res = "OK"
                  /\ Len(list) = Cardinality(mine)
                  /\ \A m \in mine :
                       \E i \in 1..Len(list) :
                           /\ list[i].id = memberships'[m].tenant_id
                           /\ list[i].role = memberships'[m].role
                  /\ \A i \in 1..Len(list) :
                       \E m \in mine :
                           /\ list[i].id = memberships'[m].tenant_id
                           /\ list[i].role = memberships'[m].role]_vars

\* a user with two memberships of different roles has listed both, with a
\* token without tenant claim
C26_Witness ==
    \E r \in Slots :
        /\ reqs[r].pc = "done" /\ reqs[r].op = "list_user_tenants"
        /\ reqs[r].res = "OK" /\ reqs[r].tclaim = NoClaim
        /\ Len(reqs[r].listed) = 2
        /\ reqs[r].listed[1].role # reqs[r].listed[2].role

\* ---- the owner's membership under overlapping requests ------------------
\* C27: in every interleaving of requests, a stored membership of role OWNER
\* is not removed by remove-member and does not get another role by
\* update-member-role, also when the request read the target's role before
\* another request made the target an OWNER.
C27_OwnerMembershipIsKept ==
    [][\A m \in DOMAIN memberships :
         memberships[m].role = OWNER =>
             /\ m \in DOMAIN memberships'
             /\ memberships'[m].role = OWNER]_vars

\* ---- the order of the checks of update-member-role and remove-member -----
MemberOps == {"update_member_role", "remove_member"}

\* the outcome the order of checks gives a request of role `role` by user
\* `user` on the membership of `member` in `tenant`: the response and, for
\* Forbidden, which check refused; "-" when every check passes
CheckOrder(op, role, user, tenant, member) ==
    LET found == get_membership(memberships, member, tenant)
        enough == IF op = "update_member_role" THEN role = OWNER
                  ELSE role \in {OWNER, ADMIN}
    IN
    IF ~enough THEN <<"Forbidden", "role">>
    ELSE IF found = {} THEN <<"NotFound", "-">>
    ELSE IF member = user THEN <<"Forbidden", "self">>
    ELSE IF \E m \in found : memberships[m].role = OWNER
    THEN <<"Forbidden", "owner">>
    ELSE <<"-", "-">>

\* which check a ForbiddenException of the two operations comes from
Refusal(message) ==
    CASE message \in {"Only owner can change member roles",
                      "Only admins and owners can remove members"} -> "role"
      [] message \in {"Cannot change your own role",
                      "Cannot remove yourself from tenant"} -> "self"
      [] message \in {"Cannot change owner's role",
                      "Cannot remove owner from tenant"} -> "owner"
      [] OTHER -> "-"

\* C28: update-member-role and remove-member check in this order: the
\* caller's role (Forbidden), the target membership (NotFound), the target
\* being the caller (Forbidden, self), the target's role being OWNER
\* (Forbidden, owner); so an OWNER who targets the own membership is refused
\* as self; and a request that fails leaves the memberships unchanged.
C28_MemberCheckOrder ==
    [][\A r \in Slots :
         (reqs[r].pc = "run" /\ reqs'[r].op \in MemberOps) =>
             LET want == CheckOrder(reqs'[r].op, reqs[r].role, reqs[r].user,
                                    reqs[r].tenant, reqs'[r].member)
             IN
             IF want[1] = "-"
             THEN reqs'[r].pc # "done"
             ELSE /\ reqs'[r].pc = "done"
                  /\ reqs'[r].res = want[1]
                  /\ Refusal(reqs'[r].detail) = want[2]
                  /\ memberships' = memberships]_vars

\* an OWNER has targeted the own membership and is refused as self
C28_Witness ==
    \E r \in Slots :
        /\ reqs[r].pc = "done" /\ reqs[r].op \in MemberOps
        /\ reqs[r].role = OWNER /\ reqs[r].member = reqs[r].user
        /\ reqs[r].res = "Forbidden"
        /\ Refusal(reqs[r].detail) = "self"

\* ---- role checks before mutations -------------------------------------------
\* request r has committed a row of some table
Mutated(r) ==
    \/ reqs[r].usrDone \/ reqs[r].tenDone \/ reqs[r].memDone
    \/ reqs[r].accDone \/ reqs[r].txnDone

\* C29: an operation that runs with an authorization context and ends with
\* Forbidden has changed no stored user, tenant, membership, account or
\* transaction; an invite that ends with Forbidden has created no user row
\* for the invitee.
C29_ForbiddenChangesNothing ==
    \A r \in Slots :
        (reqs[r].pc = "done" /\ reqs[r].op # "-" /\ reqs[r].res = "Forbidden")
            => ~Mutated(r)

\* ---- update-transaction ------------------------------------------------------
\* request r is in update_transaction, past the lookup of its row
Updating(r) ==
    /\ reqs[r].op = "update_transaction"
    /\ reqs[r].pc \in {"ut_commit", "ut_account", "ut_write"}

\* the request supplied an amount that differs from the stored one
AmountChanges(r) == reqs[r].amts # <<>> /\ reqs[r].amts[1] # reqs[r].oldAmt

\* the row of the update after the supplied fields have replaced the stored
\* ones
Replaced(r) ==
    [txns[reqs[r].txn] EXCEPT
        !.amount = IF reqs[r].amts # <<>> THEN reqs[r].amts[1] ELSE @,
        !.category = IF reqs[r].cat # NoCat THEN reqs[r].cat ELSE @]

\* C30: update-transaction replaces exactly the supplied fields of the row
\* and leaves its other fields and its account id as stored; the balance of
\* the account changes only when an amount is supplied that differs from
\* the stored one, and then by exactly (new amount - old amount); without
\* an amount, or with the stored amount, the balance is unchanged.
C30_UpdateReplacesSuppliedFields ==
    [][\A r \in Slots :
         Updating(r) =>
           /\ reqs[r].pc = "ut_commit" =>
                /\ reqs[r].oldAmt = txns[reqs[r].txn].amount
                /\ txns' = [txns EXCEPT ![reqs[r].txn] = Replaced(r)]
                /\ txns'[reqs[r].txn].account_id = txns[reqs[r].txn].account_id
                /\ accounts' = accounts
                /\ (reqs'[r].pc = "done") = ~AmountChanges(r)
           /\ reqs[r].pc # "ut_commit" => txns' = txns /\ AmountChanges(r)
           /\ reqs[r].pc # "ut_write" => accounts' = accounts
           /\ reqs[r].pc = "ut_write" =>
                /\ \A a \in DOMAIN accounts \ {reqs[r].acc} :
                     a \in DOMAIN accounts' /\ accounts'[a] = accounts[a]
                /\ accounts'[reqs[r].acc].balance =
                     accounts[reqs[r].acc].balance
                         + (txns[reqs[r].txn].amount - reqs[r].oldAmt)
                /\ reqs[r].acc = txns[reqs[r].txn].account_id
           /\ reqs'[r].pc = "done" => reqs'[r].res = "OK"]_vars

\* an update with an amount that differs from the stored one is done and
\* has changed the row and the balance
C30_Witness ==
    \E r \in Slots :
        /\ reqs[r].pc = "done" /\ reqs[r].op = "update_transaction"
        /\ reqs[r].res = "OK" /\ reqs[r].at = "ut_write"
        /\ reqs[r].txnDone /\ reqs[r].accDone
        /\ reqs[r].txn \in DOMAIN txns

\* ---- who sets a balance ----------------------------------------------------
\* the four transaction operations that write a balance
BalanceOps ==
    {"create_transaction", "create_transaction_batch", "update_transaction",
     "delete_transaction"}

\* the request that takes the step
Acting(r) == reqs'[r] # reqs[r]

\* C31: callers set a balance only as the seed of a new account, which is
\* the value given, 0 when none is given, and never negative; update-account
\* changes at most name and type of its account and leaves every balance and
\* tenant as stored; and the balance of a stored account changes only in a
\* step of one of the four mutating transaction operations.
C31_BalanceOnlySeeded ==
    [][\A r \in Slots :
         Acting(r) =>
           /\ \A a \in DOMAIN accounts' \ DOMAIN accounts :
                /\ reqs'[r].op = "create_account"
                /\ accounts'[a].balance >= 0
                /\ accounts'[a].balance =
                     (IF reqs'[r].seedIn = <<>> THEN 0 ELSE reqs'[r].seedIn[1])
           /\ reqs'[r].op = "create_account" =>
                \A a \in DOMAIN accounts :
                    a \in DOMAIN accounts' /\ accounts'[a] = accounts[a]
           /\ reqs'[r].op = "update_account" =>
                /\ DOMAIN accounts' = DOMAIN accounts
                /\ \A a \in DOMAIN accounts :
                     /\ accounts'[a].balance = accounts[a].balance
                     /\ accounts'[a].tenant_id = accounts[a].tenant_id
                     /\ accounts'[a] = [accounts[a] EXCEPT
                                          !.name = accounts'[a].name,
                                          !.account_type = accounts'[a].account_type]
                     /\ a # reqs'[r].acc => accounts'[a] = accounts[a]
           /\ \A a \in DOMAIN accounts \cap DOMAIN accounts' :
                accounts'[a].balance # accounts[a].balance
                    => reqs'[r].op \in BalanceOps]_vars

\* an account with a balance other than 0 has got another name or type by
\* update-account, and an account was created without a seed
C31_Witness ==
    /\ \E r \in Slots :
         /\ reqs[r].pc = "done" /\ reqs[r].op = "update_account"
         /\ reqs[r].res = "OK" /\ reqs[r].accDone
         /\ reqs[r].acc \in DOMAIN accounts
         /\ accounts[reqs[r].acc].balance # 0
    /\ \E a \in DOMAIN accounts : a >= 3 /\ accounts[a].balance = 0

\* ---- TransactionRepository.get_with_filters --------------------------------
\* how many transactions the store of a list holds
MaxListed == 2

\* the rows a list may find: on an account of either tenant, of date 1 or
\* 2, and with Transaction.tags a list of tags, each tag a string, here the
\* sequence of its characters
ListedRows ==
    [account_id : {1, 2}, amount : {2}, category : Cats, date : {1, 2},
     tags : {<<>>, << <<"f", "o">> >>, << <<"f">>, <<"o">> >>}]

\* the parameters of a list as a caller may send them: filters combined,
\* with the default page, and pages of any limit and offset
ListInputs ==
    [account_id : {0, 1}, start_date : {0, 2}, end_date : {0, 1},
     category : {NoCat, "c1"},
     tags : {<<>>, << <<"f">> >>, << <<"o">>, <<"f", "o">> >>},
     limit : {DefaultLimit}, offset : {0}]
    \cup
    [account_id : {0}, start_date : {0}, end_date : {0},
     category : {NoCat, "c1"}, tags : {<<>>},
     limit : 1..MaxListed, offset : 0..MaxListed]

\* the JSON column: json.dumps of the list of tags, character by character
RECURSIVE json_dumps_items(_)
json_dumps_items(tags) ==
    IF tags = <<>> THEN <<>>
    ELSE <<"\"">> \o Head(tags) \o <<"\"">>
         \o (IF Tail(tags) = <<>> THEN <<>> ELSE <<",", " ">>)
         \o json_dumps_items(Tail(tags))

json_dumps(tags) == <<"[">> \o json_dumps_items(tags) \o <<"]">>

\* column LIKE '%' || pattern || '%'
like_contains(text, pattern) ==
    \E i \in 0..(Len(text) - Len(pattern)) :
        \A j \in 1..Len(pattern) : text[i + j] = pattern[j]

\* lines 154-155: or_ of Transaction.tags.contains(tag) for the tags given
tags_contains_any(row, tags) ==
    \E i \in 1..Len(tags) : like_contains(json_dumps(row.tags), tags[i])

\* lines 133-155: the WHERE clause of the query
filtered(A, T, tenant_id, f) ==
    {i \in DOMAIN T :
        /\ T[i].account_id \in DOMAIN A
        /\ A[T[i].account_id].tenant_id = tenant_id
        /\ f.account_id # 0 => T[i].account_id = f.account_id
        /\ f.start_date # 0 => T[i].date >= f.start_date
        /\ f.end_date # 0 => T[i].date <= f.end_date
        /\ f.category # NoCat => T[i].category = f.category
        /\ Len(f.tags) > 0 => tags_contains_any(T[i], f.tags)}

\* line 162: ORDER BY date DESC, id DESC
RECURSIVE order_by(_, _)
order_by(T, ids) ==
    IF ids = {} THEN <<>>
    ELSE LET first == CHOOSE i \in ids :
                        \A j \in ids \ {i} :
                            \/ T[i].date > T[j].date
                            \/ T[i].date = T[j].date /\ i > j
         IN <<first>> \o order_by(T, ids \ {first})

\* lines 163-164: LIMIT limit OFFSET offset
limit_offset(rows, limit, offset) ==
    SubSeq(rows, offset + 1,
           IF offset + limit < Len(rows) THEN offset + limit ELSE Len(rows))

\* the store gets the rows of a list: MaxListed transactions of any date,
\* category and tags
seed_rows(r) ==
    /\ reqs[r].pc = "idle" /\ nreq = 0
    /\ Quiescent /\ \A s \in Slots : r <= s
    /\ \E T \in [1..MaxListed -> ListedRows] :
         /\ txns' = T
         /\ transaction_seq' = MaxListed + 1
    /\ nreq' = 1
    /\ UNCHANGED <<accounts, account_seq, authVars, reqs, trip>>

\* TransactionRepository.get_with_filters(tenant_id, ...): lines 133-168
get_with_filters(r) ==
    /\ reqs[r].pc = "idle" /\ nreq = 1
    /\ Quiescent /\ \A s \in Slots : r <= s
    /\ \E tenant_id \in Tenants, f \in ListInputs :
         LET found == filtered(accounts, txns, tenant_id, f)
             rec == [Idle EXCEPT !.op = "get_with_filters", !.tenant = tenant_id,
                        !.flt = f, !.total = Cardinality(found),
                        !.page = limit_offset(order_by(txns, found),
                                              f.limit, f.offset)]
         IN reqs' = [reqs EXCEPT ![r] = Fin(rec, "OK")]
    /\ nreq' = nreq + 1
    /\ UNCHANGED <<storeVars, authVars, trip>>

NextList ==
    \E r \in Slots : seed_rows(r) \/ get_with_filters(r) \/ Respond(r)

SpecList == Init /\ [][NextList]_vars

\* ---- what a list of transactions returns ------------------------------------
\* request r has listed transactions, by the service or by its query, and
\* was not refused for its account
Listed(r) ==
    /\ reqs[r].pc = "done"
    /\ reqs[r].op \in {"get_transactions", "get_with_filters"}
    /\ reqs[r].res # "NotFound"

\* the tag filter of the specification: the two sets of tags intersect
TagsIntersect(row, tags) ==
    \E i \in 1..Len(tags) : \E k \in 1..Len(row.tags) : row.tags[k] = tags[i]

\* the filters of f other than the tag filter
OtherFilters(A, T, tenant_id, f) ==
    {i \in DOMAIN T :
        /\ T[i].account_id \in DOMAIN A
        /\ A[T[i].account_id].tenant_id = tenant_id
        /\ f.account_id # 0 => T[i].account_id = f.account_id
        /\ f.start_date # 0 => f.start_date <= T[i].date
        /\ f.end_date # 0 => T[i].date <= f.end_date
        /\ f.category # NoCat => T[i].category = f.category}

\* the transactions of the tenant that satisfy every filter given
Matching(A, T, tenant_id, f) ==
    {i \in OtherFilters(A, T, tenant_id, f) :
        Len(f.tags) > 0 => TagsIntersect(T[i], f.tags)}

Elems(q) == {q[i] : i \in 1..Len(q)}

\* C32: list-transactions returns exactly the transactions of the caller's
\* tenant that satisfy every filter given (account, inclusive date bounds,
\* category, tags, combined with AND), and its total is the number of all
\* transactions that satisfy them, whatever limit and offset are.
C32_ListMatchesFilters ==
    \A r \in Slots :
        Listed(r) =>
            LET match == Matching(accounts, txns, reqs[r].tenant, reqs[r].flt) IN
            /\ reqs[r].res = "OK"
            /\ reqs[r].total = Cardinality(match)
            /\ Elems(reqs[r].page) \subseteq match
            /\ Len(reqs[r].page) = Cardinality(Elems(reqs[r].page))
            /\ (reqs[r].flt.offset = 0 /\ reqs[r].flt.limit >= Cardinality(match))
                   => Elems(reqs[r].page) = match

\* C33: with a tag filter, a transaction (that passes the other filters) is
\* returned if and only if one of its tags equals one of the filter's tags;
\* a transaction none of whose tags equals a filter tag is not returned.
C33_TagFilterIntersects ==
    \A r \in Slots :
        (/\ Listed(r) /\ reqs[r].op = "get_with_filters"
         /\ Len(reqs[r].flt.tags) > 0
         /\ reqs[r].flt.offset = 0 /\ reqs[r].flt.limit >= MaxListed) =>
            \A i \in OtherFilters(accounts, txns, reqs[r].tenant, reqs[r].flt) :
                (i \in Elems(reqs[r].page)) <=> TagsIntersect(txns[i], reqs[r].flt.tags)

\* the sequence q is in the order of the list: later dates first, and of
\* equal dates the higher id first
Ordered(T, q) ==
    \A i \in 1..Len(q) : \A j \in 1..Len(q) :
        i < j => \/ T[q[i]].date > T[q[j]].date
                 \/ T[q[i]].date = T[q[j]].date /\ q[i] > q[j]

\* C34: a list is ordered by date descending and then id descending, and
\* the page of (limit, offset) is the part offset+1 .. offset+limit of the
\* full ordered result of the same filters: pages of ranges that do not
\* overlap share no transaction and, put one after the other, give the full
\* result.
C34_OrderedPages ==
    \A r \in Slots :
        Listed(r) =>
            LET found == filtered(accounts, txns, reqs[r].tenant, reqs[r].flt)
                page == reqs[r].page
                offset == reqs[r].flt.offset
            IN
            /\ reqs[r].res = "OK"
            /\ Elems(page) \subseteq found
            /\ Ordered(txns, page)
            /\ Len(page) = IF Cardinality(found) - offset < 0 THEN 0
                           ELSE IF Cardinality(found) - offset < reqs[r].flt.limit
                           THEN Cardinality(found) - offset
                           ELSE reqs[r].flt.limit
            /\ \A i \in found :
                 LET before == {j \in found :
                                  \/ txns[j].date > txns[i].date
                                  \/ txns[j].date = txns[i].date /\ j > i}
                 IN (i \in Elems(page)) <=>
                        /\ Cardinality(before) >= offset
                        /\ Cardinality(before) < offset + reqs[r].flt.limit

\* C37: a list with an account id that is not stored or is not of the
\* caller's tenant ends NotFound, the same in both cases, and a list without
\* an account id never ends NotFound.
C37_ListAccountNotFound ==
    \A r \in Slots :
        (reqs[r].pc = "done" /\ reqs[r].op = "get_transactions") =>
            /\ reqs[r].target \in {"absent", "foreign"} => reqs[r].res = "NotFound"
            /\ reqs[r].acc = 0 => reqs[r].res # "NotFound"

\* ---- two deletes of one transaction ---------------------------------------
\* requests r1 and r2 are both done with a delete of the same transaction
DeletedTwice(r1, r2) ==
    /\ r1 # r2
    /\ reqs[r1].pc = "done" /\ reqs[r1].op = "delete_transaction"
    /\ reqs[r2].pc = "done" /\ reqs[r2].op = "delete_transaction"
    /\ reqs[r1].txn = reqs[r2].txn
    /\ reqs[r1].acc # 0 /\ reqs[r2].acc # 0

\* C35: when two delete requests for the same transaction overlap, at most
\* one of them changes the balance, and afterwards the balance of the
\* account is its seed plus the sum of the transactions that remain.
C35_DeleteSubtractsOnce ==
    \A r1 \in Slots : \A r2 \in Slots :
        DeletedTwice(r1, r2) =>
            /\ ~(reqs[r1].accDone /\ reqs[r2].accDone)
            /\ reqs[r1].acc \in DOMAIN accounts =>
                 accounts[reqs[r1].acc].balance =
                     accounts[reqs[r1].acc].seed
                         + SumAmounts(txns, TxnsOf(txns, reqs[r1].acc))

\* ---- the role of the context when the write commits ----------------------
\* requests in flight at the same time: removal and role change of members,
\* and the deletion of an account by a member who can write
NextGuard ==
    \E r \in Slots :
        \/ Receive(r, Cardinality(Slots), Cardinality(Slots))
        \/ ContextSteps(r)
        \/ update_member_role_load(r)
        \/ update_member_role_commit(r)
        \/ remove_member_load(r)
        \/ remove_member_delete(r)
        \/ delete_account(r)
        \/ Respond(r)

SpecGuard == Init /\ [][NextGuard]_vars

\* the role an operation requires: can-write for the account operations,
\* and the roles of tenant management
RoleAllows(op, role) ==
    IF op \in TenantMutations THEN SufficientRole(op, role)
    ELSE role \in {OWNER, ADMIN, MEMBER}

\* the user of request r is stored as a member of its tenant, with a role
\* that allows the operation
RoleStillHeld(r, op) ==
    \E m \in DOMAIN memberships :
        /\ memberships[m].user_id = reqs[r].user
        /\ memberships[m].tenant_id = reqs[r].tenant
        /\ RoleAllows(op, memberships[m].role)

\* C36: when a request with an authorization context commits a write, its
\* user is at that moment stored as a member of its tenant with a role the
\* operation requires: no write is committed for a member who was removed,
\* or whose role was lowered below the required one, after the context was
\* built.
C36_RoleHeldAtCommit ==
    [][\A r \in Slots :
         (/\ Acting(r) /\ reqs[r].role # "-"
          /\ \/ tenants' # tenants \/ memberships' # memberships
             \/ accounts' # accounts \/ txns' # txns)
             => RoleStillHeld(r, reqs'[r].op)]_vars

====
